---------------------------- MODULE Spec2Model ----------------------------
(***************************************************************************)
(* Model of the load orchestrator of arthur-redshift-etl                   *)
(* (src/python/etl/load.py) and of the dependency / selection resolver it  *)
(* calls.                                                                  *)
(*                                                                         *)
(* Specifications:                                                         *)
(*   SpecOrder       one call of evaluate_execution_order, arbitrary inputs*)
(*   Spec            one run of load_or_update_redshift                    *)
(*   SpecBoth        either of the two                                     *)
(*   SpecDependents  find_dependents called on its own, twice              *)
(*   SpecRetry       one call of etl.errors.retry                          *)
(*   SpecExtract     one run of Extractor.extract_sources                  *)
(*   SpecFiles       one call of download_table_data, save_table_design or *)
(*                   write_manifest_file (s3.py and extractor.py)          *)
(*   SpecRelation    one call of load_or_update_redshift_relation          *)
(*   SpecVerify      one call of verify_constraints, arbitrary table       *)
(*   SpecLoadAll     Spec or SpecRelation                                  *)
(*   SpecUpload      a table is dumped and upload_to_s3 is called          *)
(*   SpecRetryAny    SpecRetry with negative max_retries as well           *)
(*                                                                         *)
(* etl.relation (order_by_dependencies, find_matches, find_dependents),    *)
(* etl.dw (backup_schemas, create_schemas, restore_schemas) and etl.pg are *)
(* not part of the sources at hand; the resolver functions are modelled    *)
(* from the specification (section 4.1), the warehouse calls by their      *)
(* effect on sets of schema names.                                         *)
(***************************************************************************)
EXTENDS Integers, Sequences, FiniteSets, TLC

\* ------------------------------------------------------------------ bounds
NumRelations == 3
MaxDeps == 3
MaxRetries == 3

Ids == 1..NumRelations
Schemas == {"www", "dw"}
Kinds == {"DATA", "CTAS", "VIEW"}

VARIABLES
    \* inputs of the call
    relations,          \* set of identifiers of the relation descriptions passed in
    depends_on,         \* identifier -> set of identifiers (relation.dependencies)
    schema_of,          \* identifier -> relation.target_table_name.schema
    is_required,        \* identifier -> relation.is_required
    selector,           \* the identifiers that selector.match accepts
    only_first,         \* evaluate_execution_order(only_first=...)
    whole_schemas,      \* evaluate_execution_order(whole_schemas=...); load.py:527
    drop, stop_after_first, no_rollback, dry_run,
    \* control
    pc,
    exc,                \* the exception in flight or raised to the caller
    \* locals of evaluate_execution_order / load_or_update_redshift
    complete_sequence,
    execution_order,
    involved_schemas,
    index,              \* number of worklist entries the loop has gone past
    skip_after_fail,
    vacuum_ready,
    \* observations
    kind,               \* identifier -> kind of the relations loaded so far
    attempted,          \* relations passed to load_or_update_redshift_relation, in order
    loaded, failed, skipped,
    conns,              \* open connections
    pending, durable,   \* relations with uncommitted / committed effects
    committed, rolled_back,
    backed_up, created, restored, restore_calls,
    vacuum_calls, vacuumed,
    \* a call of etl.relation.find_dependents on its own
    fd_pc,
    fd_order,           \* the relations passed in, in execution order
    fd_seeds,           \* the seed relations
    fd_result,          \* what the call returned
    fd_again,           \* what a second call on the seeds and the result returned
    \* a call of etl.errors.retry
    max_retries,
    attempt,            \* the loop variable of retry
    r_pc,
    failure_reason,
    successful_result,
    r_exc,              \* the exception retry raised
    r_log,              \* the calls of func and of time.sleep, in order
    \* Extractor.extract_sources
    descriptions,       \* self.descriptions: identifiers, in worklist order
    source_of,          \* identifier -> description.source_name
    keep_going,         \* self.keep_going
    failed_sources,     \* self.failed_sources
    futures,            \* the tasks submitted to the executor, in order of submission
    e_pc,               \* where the thread that called extract_sources is
    done_, not_done,    \* done, not_done: what concurrent.futures.wait returned
    missing_tables,
    e_exc,              \* the exception extract_sources raised
    rel_state,          \* identifier -> "pending", "extracting", "succeeded", "failed"
    attempts,           \* identifier -> number of calls of extract_table
    \* files and objects: dump.py, s3.write_manifest_file, Extractor.write_manifest_file
    fs,                 \* local path -> content of the file
    objects,            \* object key -> content of the object in the bucket
    local_files,        \* the list passed to s3.write_manifest_file
    needs_to_wait,      \* self.needs_to_wait
    f_call,             \* the last call: its arguments, what it returned or raised
    uploads,            \* the object keys that upload_to_s3 has put into the bucket
    \* load_or_update_redshift_relation for one relation
    rel_kind,           \* "DATA", "CTAS" or "VIEW"
    skip_copy,
    has_manifest,       \* relation.has_manifest
    has_any_identity,   \* load.py:314
    reader_groups, writer_groups,   \* schema_config
    table_design,       \* relation.table_design: whether it has constraints, and the list
    rows,               \* the rows of the target table: tuple of values -> how many
    l_plan,             \* the functions the call goes through, in order
    l_pc,               \* how many of them have returned
    l_exc,              \* the exception the call raised
    statements,         \* what was sent on conn, in order
    warnings,           \* logger.warning
    modified            \* what the call returned

inputs == <<relations, depends_on, schema_of, is_required, selector,
            drop, stop_after_first, no_rollback, dry_run>>
resolver == <<only_first, whole_schemas, complete_sequence, execution_order, involved_schemas>>
loopvars == <<index, skip_after_fail, vacuum_ready, kind, attempted, loaded, failed, skipped>>
dbvars == <<conns, pending, durable, committed, rolled_back,
            backed_up, created, restored, restore_calls, vacuum_calls, vacuumed>>
fdvars == <<fd_pc, fd_order, fd_seeds, fd_result, fd_again>>
\* the state of the components that load.py does not touch
retryvars == <<max_retries, attempt, r_pc, failure_reason, successful_result, r_exc, r_log>>
extractvars == <<descriptions, source_of, keep_going, failed_sources, futures, e_pc,
                 done_, not_done, missing_tables, e_exc, rel_state, attempts>>
filevars == <<fs, objects, local_files, needs_to_wait, f_call, uploads>>
relvars == <<rel_kind, skip_copy, has_manifest, has_any_identity, reader_groups, writer_groups,
             table_design, rows, l_plan, l_pc, l_exc, statements, warnings, modified>>
morevars == <<filevars, relvars>>
others == <<fdvars, retryvars, extractvars, morevars>>
vars == <<inputs, resolver, loopvars, dbvars, pc, exc, others>>

\* ----------------------------------------------------------------- helpers
Range(s) == {s[k] : k \in 1..Len(s)}

Min(S) == CHOOSE x \in S : \A y \in S : x <= y

Filter(seq, S) == SelectSeq(seq, LAMBDA r : r \in S)

\* An exception: its class, the relation whose load raised it or raised its cause
\* (0 when there is none), and the two fields of RequiredRelationLoadError.
NoExc == [type |-> "none", cause |-> 0, failed_relations |-> <<>>, bad_apple |-> <<>>]

Raise(t) == [type |-> t, cause |-> 0, failed_relations |-> <<>>, bad_apple |-> <<>>]

\* whatever load_or_update_redshift_relation raised for relation r
LoadError(r) == [type |-> "LoadError", cause |-> r, failed_relations |-> <<>>, bad_apple |-> <<>>]

\* errors.py:204-211, raised "from exc" at load.py:563; the fields are the
\* arguments as __init__ binds them. An argument that is one identifier is
\* written as a one-element sequence, so that both fields are sequences.
RequiredRelationLoadError(failed_relations, bad_apple, cause) ==
    [type |-> "RequiredRelationLoadError", cause |-> cause,
     failed_relations |-> failed_relations, bad_apple |-> bad_apple]


\* ---------------------------------------------------------------- resolver
\* etl.relation.order_by_dependencies (specification 4.1): Kahn's algorithm over
\* the dependency edges restricted to the identifiers of rels; among the relations
\* that are ready, the one with the smallest identifier goes first.
RECURSIVE KahnOrder(_, _)
KahnOrder(rels, placed) ==
    LET done == Range(placed)
        remaining == rels \ done
        ready == {r \in remaining : (depends_on[r] \cap rels) \subseteq done}
    IN  IF remaining = {} THEN [raised |-> "none", order |-> placed]
        ELSE IF ready = {} THEN [raised |-> "CyclicDependencyError", order |-> <<>>]
        ELSE KahnOrder(rels, Append(placed, Min(ready)))

\* mutant of order_by_dependencies: a dependency on a relation that is not in the
\* input blocks the relation for ever
RECURSIVE KahnOrder_AllDeps(_, _)
KahnOrder_AllDeps(rels, placed) ==
    LET done == Range(placed)
        remaining == rels \ done
        ready == {r \in remaining : depends_on[r] \subseteq done}
    IN  IF remaining = {} THEN [raised |-> "none", order |-> placed]
        ELSE IF ready = {} THEN [raised |-> "CyclicDependencyError", order |-> <<>>]
        ELSE KahnOrder_AllDeps(rels, Append(placed, Min(ready)))

order_by_dependencies_AllDeps(rels) == KahnOrder_AllDeps(rels, <<>>)

order_by_dependencies(rels) == KahnOrder(rels, <<>>)

\* etl.relation.find_matches (specification 4.1)
find_matches(order, sel) == Filter(order, sel)

\* mutant of DependentsClosure: one round only, the direct dependents
DependentsClosure_OneRound(order, found) ==
    found \cup {r \in Range(order) : depends_on[r] \cap found # {}}

\* etl.relation.find_dependents (specification 4.1): fixed point
RECURSIVE DependentsClosure(_, _)
DependentsClosure(order, found) ==
    LET more == {r \in Range(order) : r \notin found /\ depends_on[r] \cap found # {}}
    IN  IF more = {} THEN found ELSE DependentsClosure(order, found \cup more)

find_dependents(order, seeds) ==
    Filter(order, DependentsClosure(order, Range(seeds)) \ Range(seeds))

\* mutant of CheckOnlyFirst: only an empty selection is refused
CheckOnlyFirst_AtLeastOne(selected, only_first_, whole_schemas_) ==
    IF only_first_ /\ Len(selected) < 1 THEN "ValueError"
    ELSE IF only_first_ /\ whole_schemas_ THEN "ValueError"
    ELSE "none"

\* load.py:487-491
CheckOnlyFirst(selected, only_first_, whole_schemas_) ==
    IF only_first_ /\ Len(selected) # 1 THEN "ValueError"
    ELSE IF only_first_ /\ whole_schemas_ THEN "ValueError"
    ELSE "none"

\* mutant of DirtySet: the dependents are never added
DirtySet_NoDependents(sequence, selected, only_first_) == Range(selected)

\* load.py:485-493
DirtySet(sequence, selected, only_first_) ==
    IF only_first_ THEN Range(selected)
    ELSE Range(selected) \cup Range(find_dependents(sequence, selected))

\* load.py:495-496
DirtySchemas(sequence, dirty) == {schema_of[r] : r \in Range(sequence) \cap dirty}

\* mutant of Widen: the update is never widened to the schemas
Widen_Never(sequence, dirty, dirty_schemas, whole_schemas_) == dirty

\* load.py:497-500
Widen(sequence, dirty, dirty_schemas, whole_schemas_) ==
    IF whole_schemas_
    THEN dirty \cup {r \in Range(sequence) : schema_of[r] \in dirty_schemas}
    ELSE dirty

\* the relations of S by ascending identifier
RECURSIVE SortedSeq(_)
SortedSeq(S) == IF S = {} THEN <<>> ELSE <<Min(S)>> \o SortedSeq(S \ {Min(S)})

\* mutant of WorklistOf: the dirty relations are sorted again, by identifier
WorklistOf_Resorted(sequence, dirty) == SortedSeq(Range(sequence) \cap dirty)

\* load.py:509
WorklistOf(sequence, dirty) == Filter(sequence, dirty)

\* load.py:468-509
evaluate_execution_order(rels, sel, only_first_, whole_schemas_) ==
    LET ordered == order_by_dependencies(rels)
        sequence == ordered.order
        selected == find_matches(sequence, sel)
        check == CheckOnlyFirst(selected, only_first_, whole_schemas_)
        dirty == DirtySet(sequence, selected, only_first_)
        dirty_schemas == DirtySchemas(sequence, dirty)
        widened == Widen(sequence, dirty, dirty_schemas, whole_schemas_)
    IN  IF ordered.raised # "none"
        THEN [raised |-> ordered.raised, sequence |-> <<>>, order |-> <<>>, schemas |-> {}]
        ELSE IF check # "none"
        THEN [raised |-> check, sequence |-> sequence, order |-> <<>>, schemas |-> {}]
        ELSE [raised |-> "none", sequence |-> sequence,
              order |-> WorklistOf(sequence, widened), schemas |-> dirty_schemas]

\* ------------------------------------------------------------------ inputs
\* Dependency lists over the identifiers, none naming itself, with at most
\* MaxDeps edges in all.
Edges(d) == {e \in Ids \X Ids : e[1] \in d[e[2]]}

DependencyMaps ==
    {d \in [Ids -> SUBSET Ids] :
        (\A r \in Ids : r \notin d[r]) /\ Cardinality(Edges(d)) <= MaxDeps}

\* Schema names are interchangeable: the first relation lives in the first schema.
SchemaMaps == {m \in [Ids -> Schemas] : m[1] = "www"}

\* The warehouse of a load: relations alternate between the two schemas.
LoadSchemaMap == [r \in Ids |-> IF r % 2 = 1 THEN "www" ELSE "dw"]

InitIdle ==
    /\ pc \in {"call", "start", "off"}
    /\ exc = NoExc
    /\ complete_sequence = <<>> /\ execution_order = <<>> /\ involved_schemas = {}
    /\ index = 0 /\ skip_after_fail = {} /\ vacuum_ready = <<>>
    /\ kind = [r \in Ids |-> "unread"]
    /\ attempted = <<>> /\ loaded = {} /\ failed = {} /\ skipped = {}
    /\ conns = {} /\ pending = {} /\ durable = {}
    /\ committed = FALSE /\ rolled_back = FALSE
    /\ backed_up = {} /\ created = {} /\ restored = {} /\ restore_calls = 0
    /\ vacuum_calls = 0 /\ vacuumed = <<>>

\* find_dependents is not being called on its own
DependentsIdle ==
    /\ fd_pc = "off" /\ fd_order = <<>> /\ fd_seeds = <<>>
    /\ fd_result = <<>> /\ fd_again = <<>>

\* An exception object: its class and the call of func that raised it.
Err(cls, at) == [cls |-> cls, at |-> at]

None == Err("None", 0)

\* retry is not being called
RetryIdle ==
    /\ r_pc = "off" /\ max_retries = 0 /\ attempt = 0
    /\ failure_reason = None /\ successful_result = "None"
    /\ r_exc = [cls |-> "None", at |-> 0, cause |-> None]
    /\ r_log = <<>>

\* no extractor has been constructed
ExtractIdle ==
    /\ e_pc = "off" /\ descriptions = <<>> /\ keep_going = FALSE
    /\ source_of = [r \in Ids |-> "A"]
    /\ failed_sources = {} /\ futures = <<>>
    /\ done_ = {} /\ not_done = {} /\ missing_tables = {}
    /\ e_exc = [cls |-> "None", rel |-> 0]
    /\ rel_state = [r \in Ids |-> "pending"] /\ attempts = [r \in Ids |-> 0]

\* ------------------------------------------------ paths, files and objects
\* A path, an object key or a URL is the sequence of the pieces of its string,
\* cut so that the string operations of the code (endswith, rfind, slicing,
\* commonprefix, basename, in) fall on boundaries between pieces.
MaxFiles == 2

Absent == <<"(absent)">>

\* what an earlier run left in a file or an object
Old == <<"(old)">>

NoPath == <<"None">>

\* dump.py:241
CsvFile == <<"out", "/", "www", "-", "t", ".", "csv", ".", "g", "z">>

\* dump.py:171
DesignFile == <<"out", "/", "www", "-", "t", ".", "yml">>

\* file names that may be passed to s3.write_manifest_file
LocalCandidates ==
    { <<"out", "/", "t", ".", "csv", ".", "g", "z">>,
      <<"out", "/", "t", ".", "part_", "0", ".", "g", "z">>,
      <<"out", "/", "t", ".", "part_", "1", ".", "g", "z">>,
      <<"out", "/", "t", ".", "manifest">>,
      <<"tmp", "/", "t", ".", "csv", ".", "g", "z">> }

LocalFileLists == UNION {[1..n -> LocalCandidates] : n \in 0..MaxFiles}

\* str.endswith
EndsWith(path, suffix) ==
    /\ Len(path) >= Len(suffix)
    /\ SubSeq(path, Len(path) - Len(suffix) + 1, Len(path)) = suffix

\* str.rfind: the highest index (from 0) at which sub starts, or -1
RFind(path, sub) ==
    LET starts == {i \in 0..(Len(path) - Len(sub)) : SubSeq(path, i + 1, i + Len(sub)) = sub}
    IN  IF starts = {} THEN -1 ELSE CHOOSE i \in starts : \A j \in starts : j <= i

\* path[:i], where a negative i counts from the end
SliceTo(path, i) ==
    IF i >= 0 THEN SubSeq(path, 1, IF i < Len(path) THEN i ELSE Len(path))
    ELSE SubSeq(path, 1, IF Len(path) + i > 0 THEN Len(path) + i ELSE 0)

\* os.path.commonprefix
CommonPrefix(paths) ==
    LET first == paths[1]
        agree == {n \in 0..Len(first) :
                    \A k \in 1..Len(paths) :
                        Len(paths[k]) >= n /\ SubSeq(paths[k], 1, n) = SubSeq(first, 1, n)}
    IN  SubSeq(first, 1, CHOOSE n \in agree : \A m \in agree : m <= n)

\* os.path.basename
basename(path) ==
    SubSeq(path, RFind(path, <<"/">>) + 2, Len(path))

\* s3.py:230
DataFiles(files) ==
    SelectSeq(files, LAMBDA name : ~EndsWith(name, <<".", "manifest">>))

\* s3.py:233-238: the name of the manifest file for one or more data files
ManifestName(data_files) ==
    IF Len(data_files) > 1
    THEN LET parts == CommonPrefix(data_files)
         IN  SliceTo(parts, RFind(parts, <<".", "part_">>)) \o <<".", "manifest">>
    ELSE LET csv_file == data_files[1]
         IN  SliceTo(csv_file, RFind(csv_file, <<".", "csv">>)) \o <<".", "csv", ".", "manifest">>

\* mutant of RemoteFile: the whole local path is put into the URL
RemoteFile_KeepsDirectory(bucket_name, prefix, name) ==
    <<"s3://", bucket_name, "/", prefix, "/">> \o name

\* s3.py:239: "s3://{}/{}/{}".format(bucket_name, prefix, os.path.basename(name))
RemoteFile(bucket_name, prefix, name) ==
    <<"s3://", bucket_name, "/", prefix, "/">> \o basename(name)

\* s3.py:240, extractor.py:139
Manifest(remote_files) ==
    [entries |-> [k \in 1..Len(remote_files) |-> [url |-> remote_files[k], mandatory |-> TRUE]]]

RECURSIVE DumpEntries(_)
DumpEntries(entries) ==
    IF entries = <<>> THEN <<>>
    ELSE <<"{", "mandatory", IF Head(entries).mandatory THEN "true" ELSE "false",
           "url", Head(entries).url, "}">> \o DumpEntries(Tail(entries))

\* s3.py:246: json.dump(manifest, o, sort_keys=True), the text of the manifest
Dump(manifest) ==
    <<"{", "entries", "[">> \o DumpEntries(manifest.entries) \o <<"]", "}">>

\* json.load of such a text
Load(text) ==
    LET body == SubSeq(text, 4, Len(text) - 2)
    IN  [entries |-> [k \in 1..(Len(body) \div 6) |->
                        [url |-> body[6 * (k - 1) + 5],
                         mandatory |-> body[6 * (k - 1) + 3] = "true"]]]

\* every local path a call may write to
LocalPaths ==
    {CsvFile, DesignFile} \cup
    {ManifestName(DataFiles(files)) : files \in {l \in LocalFileLists : DataFiles(l) # <<>>}}

\* the source bucket, which is also description.bucket_name
Bucket == "bkt"

\* the prefix of the data files of the relation, and what may lie under it
Prefix == <<"data", "/", "t", "/", "csv">>

SuccessKey == Prefix \o <<"/", "_SUCCESS">>

DataKeys ==
    { Prefix \o <<"/", "part", "-", "0", ".", "g", "z">>,
      Prefix \o <<"/", "part", "-", "1", ".", "g", "z">>,
      Prefix \o <<"/", "part", "-", "0", ".", "crc">>,
      Prefix \o <<"/", "data", ".", "g", "z">> }

\* description.manifest_file_name
ManifestKey == <<"data", "/", "t", ".", "manifest">>

ObjectKeys == DataKeys \cup {SuccessKey, ManifestKey}

\* the place of a key among the keys when their strings are sorted
KeyOrder ==
    << SuccessKey,
       Prefix \o <<"/", "data", ".", "g", "z">>,
       Prefix \o <<"/", "part", "-", "0", ".", "crc">>,
       Prefix \o <<"/", "part", "-", "0", ".", "g", "z">>,
       Prefix \o <<"/", "part", "-", "1", ".", "g", "z">>,
       ManifestKey >>

\* sorted(keys)
Sorted(keys) == Filter(KeyOrder, keys)

\* mutant of IsCsvFile: every compressed object counts
IsCsvFile_AnyGz(key) ==
    EndsWith(key, <<".", "g", "z">>)

\* extractor.py:134: "part" in key and key.endswith(".gz")
IsCsvFile(key) ==
    /\ \E k \in 1..Len(key) : key[k] = "part"
    /\ EndsWith(key, <<".", "g", "z">>)

\* extractor.py:137: "s3://{}/{}".format(source_bucket, filename)
RemoteObject(source_bucket, filename) ==
    <<"s3://", source_bucket, "/">> \o filename

\* a call and its outcome
Call(op, overwrite, dry_run_, result, raised) ==
    [op |-> op, overwrite |-> overwrite, dry_run |-> dry_run_,
     result |-> result, raised |-> raised, waited |-> FALSE, warned |-> FALSE,
     upload |-> "none"]

NoCall == Call("none", FALSE, FALSE, NoPath, "None")

\* nothing has been written and nothing is being called
FilesIdle ==
    /\ fs = [p \in LocalPaths |-> Absent]
    /\ objects = [k \in ObjectKeys |-> Absent]
    /\ local_files = <<>> /\ needs_to_wait = FALSE
    /\ f_call = NoCall /\ uploads = {}

\* ------------------------------------------ tables, constraints, statements
MaxCount == 2
MaxConstraints == 2

NULL == "NULL"

\* the columns of the target table and the values a row may have in them
ColumnNames == <<"c1", "c2">>

ValuesOf == [c1 |-> {NULL, "a", "b"}, c2 |-> {NULL, "a"}]

RowValues == {<<v1, v2>> : v1 \in ValuesOf["c1"], v2 \in ValuesOf["c2"]}

\* a table: how many rows it has of each tuple of values
Tables == [RowValues -> 0..MaxCount]

EmptyTable == [row \in RowValues |-> 0]

ConstraintTypes == {"primary_key", "unique", "natural_key"}

ColumnLists == {<<"c1">>, <<"c1", "c2">>}

\* one element of table_design["constraints"]: {constraint_type: columns}
Constraints == [type : ConstraintTypes, columns : ColumnLists]

ConstraintLists == UNION {[1..n -> Constraints] : n \in 0..MaxConstraints}

\* table_design with and without the key "constraints"
TableDesign(declared, list) == [has_constraints |-> declared, constraints |-> list]

TableDesigns ==
    {TableDesign(FALSE, <<>>)} \cup {TableDesign(TRUE, list) : list \in ConstraintLists}

ColumnIndex(name) == CHOOSE k \in 1..Len(ColumnNames) : ColumnNames[k] = name

\* the values of a row in the given columns
Project(row, columns) == [k \in 1..Len(columns) |-> row[ColumnIndex(columns[k])]]

\* mutant of Condition: rows with NULL are looked at for every constraint
Condition_True(constraint_type, columns, row) == TRUE

\* load.py:626-629: the WHERE clause
Condition(constraint_type, columns, row) ==
    IF constraint_type = "unique"
    THEN \A k \in 1..Len(columns) : row[ColumnIndex(columns[k])] # NULL
    ELSE TRUE

RECURSIVE CountRows(_, _)
CountRows(table, S) ==
    IF S = {} THEN 0
    ELSE LET row == CHOOSE row \in S : TRUE
         IN  table[row] + CountRows(table, S \ {row})

\* load.py:613-619: what the query selects before LIMIT; GROUP BY puts rows
\* with equal values, NULL included, into one group
DuplicateGroups(table, constraint_type, columns) ==
    {g \in {Project(row, columns) : row \in RowValues} :
        CountRows(table, {row \in RowValues :
                            /\ Project(row, columns) = g
                            /\ Condition(constraint_type, columns, row)}) > 1}

\* load.py:620
ExampleLimit == 5

\* the results the query may return: LIMIT keeps any ExampleLimit of the groups
QueryResults(table, constraint_type, columns) ==
    LET groups == DuplicateGroups(table, constraint_type, columns)
    IN  {S \in SUBSET groups : Cardinality(S) = Min({ExampleLimit, Cardinality(groups)})}

\* load.py:623-640: the first constraint whose query returns rows, or 0
FirstViolated(table, list) ==
    LET bad == {k \in 1..Len(list) :
                  DuplicateGroups(table, list[k].type, list[k].columns) # {}}
    IN  IF bad = {} THEN 0 ELSE Min(bad)

\* a statement sent on the connection, and whether the warehouse accepted it
Stmt(step, sql, what, n) == [step |-> step, sql |-> sql, what |-> what, n |-> n, ok |-> TRUE]

Failing(stmt) == [stmt EXCEPT !.ok = FALSE]

\* relation.identifier of the relation being loaded
Identifier == "www.t"

NoError ==
    [cls |-> "None", identifier |-> "", constraint_type |-> "", columns |-> <<>>,
     examples |-> {}]

Error(cls) == [NoError EXCEPT !.cls = cls]

\* errors.py:189-193
FailedConstraintError(relation, constraint_type, columns, examples) ==
    [cls |-> "FailedConstraintError", identifier |-> relation,
     constraint_type |-> constraint_type,
     columns |-> columns, examples |-> examples]

\* load.py:146-154
CreateTableScript(drop_table) ==
    (IF drop_table THEN <<Stmt("create_table", "DROP TABLE IF EXISTS", "", 0)>> ELSE <<>>)
        \o <<Stmt("create_table", "CREATE TABLE IF NOT EXISTS", "", 0)>>

\* load.py:165-176
CreateViewScript(drop_view) ==
    IF drop_view
    THEN <<Stmt("create_view", "DROP VIEW IF EXISTS", "", 0),
           Stmt("create_view", "CREATE VIEW", "", 0)>>
    ELSE <<>>

\* load.py:376-396
GrantAccessScript(readers, writers) ==
    <<Stmt("grant_access", "GRANT ALL", "owner", 0)>>
        \o [k \in 1..Len(readers) |-> Stmt("grant_access", "GRANT SELECT", readers[k], 0)]
        \o [k \in 1..Len(writers) |-> Stmt("grant_access", "GRANT SELECT, WRITE", writers[k], 0)]

\* load.py:205-216
CopyDataScript ==
    <<Stmt("copy_data", "DELETE FROM", "", 0),
      Stmt("copy_data", "COPY", "", 0),
      Stmt("copy_data", "SELECT pg_last_copy_count()", "", 0)>>

\* mutant of CopyMode: skip_copy is ignored
CopyMode_NeverSkip(dry_run_, skip_copy_) ==
    IF dry_run_ THEN "dry" ELSE "copy"

\* mutant of CopyMode: skip_copy is looked at before dry_run
CopyMode_SkipCopyFirst(dry_run_, skip_copy_) ==
    IF skip_copy_ THEN "skip" ELSE IF dry_run_ THEN "dry" ELSE "copy"

\* load.py:191-197, load.py:329-338: which branch the copy step takes
CopyMode(dry_run_, skip_copy_) ==
    IF dry_run_ THEN "dry" ELSE IF skip_copy_ THEN "skip" ELSE "copy"

\* load.py:339-347
TempTableScript(identity) ==
    <<Stmt("create_temp_table_as_and_copy", "CREATE TEMP TABLE", "", 0)>>
        \o (IF identity
            THEN <<Stmt("create_temp_table_as_and_copy", "INSERT INTO temp", "", 0)>>
            ELSE <<>>)
        \o <<Stmt("create_temp_table_as_and_copy", "DELETE FROM", "", 0),
             Stmt("create_temp_table_as_and_copy", "INSERT INTO", "", 0),
             Stmt("create_temp_table_as_and_copy", "DROP TABLE temp", "", 0)>>

\* load.py:337
ExplainScript == <<Stmt("create_temp_table_as_and_copy", "EXPLAIN", "", 0)>>

\* load.py:407
AnalyzeScript == <<Stmt("analyze", "ANALYZE", "", 0)>>

\* load.py:630, 638: the query for the n-th constraint
ConstraintQuery(n) == Stmt("verify_constraints", "SELECT DISTINCT", "", n)

\* mutant of Plan: a DATA relation is granted access last
Plan_GrantLast(kind_) ==
    CASE kind_ = "VIEW" -> <<"create_view", "grant_access">>
      [] kind_ = "CTAS" -> <<"create_table", "create_temp_table_as_and_copy", "analyze",
                             "verify_constraints", "grant_access">>
      [] OTHER -> <<"create_table", "copy_data", "analyze", "verify_constraints",
                    "grant_access">>

\* load.py:446-464: the functions called for a relation of each kind
Plan(kind_) ==
    CASE kind_ = "VIEW" -> <<"create_view", "grant_access">>
      [] kind_ = "CTAS" -> <<"create_table", "create_temp_table_as_and_copy", "analyze",
                             "verify_constraints", "grant_access">>
      [] OTHER -> <<"create_table", "grant_access", "copy_data", "analyze",
                    "verify_constraints">>

\* no relation is being loaded on its own
RelationIdle ==
    /\ rel_kind = "none" /\ skip_copy = FALSE /\ has_manifest = FALSE
    /\ has_any_identity = FALSE /\ reader_groups = <<>> /\ writer_groups = <<>>
    /\ table_design = TableDesign(FALSE, <<>>) /\ rows = EmptyTable
    /\ l_plan = <<>> /\ l_pc = 0 /\ l_exc = NoError
    /\ statements = <<>> /\ warnings = <<>> /\ modified = FALSE

MoreIdle == FilesIdle /\ RelationIdle

OthersIdle == DependentsIdle /\ RetryIdle /\ ExtractIdle /\ MoreIdle

\* A direct call of evaluate_execution_order: any relation set, any selector,
\* any combination of the two flags.
InitOrder ==
    /\ InitIdle /\ pc = "call" /\ OthersIdle
    /\ relations \in SUBSET Ids
    /\ depends_on \in DependencyMaps
    /\ schema_of \in SchemaMaps
    /\ selector \in SUBSET relations
    /\ only_first \in BOOLEAN /\ whole_schemas \in BOOLEAN
    /\ is_required = [r \in Ids |-> FALSE]
    /\ drop = FALSE /\ stop_after_first = FALSE /\ no_rollback = FALSE /\ dry_run = FALSE

\* load.py:468-509, called on its own (as show_dependents does, load.py:651)
EvaluateExecutionOrder ==
    /\ pc = "call"
    /\ LET res == evaluate_execution_order(relations, selector, only_first, whole_schemas)
       IN  /\ complete_sequence' = res.sequence
           /\ execution_order' = res.order
           /\ involved_schemas' = res.schemas
           /\ exc' = IF res.raised = "none" THEN NoExc ELSE Raise(res.raised)
           /\ pc' = IF res.raised = "none" THEN "returned" ELSE "raised"
    /\ UNCHANGED <<others, inputs, only_first, whole_schemas, loopvars, dbvars>>

NextOrder == EvaluateExecutionOrder

SpecOrder == InitOrder /\ [][NextOrder]_vars


\* ------------------------------------------------------------- load: pieces
\* load.py:527
WholeSchemas(drop_, stop_after_first_) == drop_ /\ ~stop_after_first_

\* mutant of Modified: a view counts as a modified table
Modified_Always(k) == TRUE

\* load.py:446-465: the value load_or_update_redshift_relation returns
Modified(k) == k # "VIEW"

\* load.py:560-561
FailedAndRequired(dependent_relations) ==
    SelectSeq(dependent_relations, LAMBDA d : is_required[d])

\* mutant of IsFatal: the required dependents are not looked at
IsFatal_SelfOnly(r, failed_and_required) == is_required[r]

\* load.py:562
IsFatal(r, failed_and_required) == is_required[r] \/ failed_and_required # <<>>

\* mutant of SkipUpdate: the dependents are not remembered
SkipUpdate_Forgets(skip, dependent_relations) == skip

\* mutant of SkipUpdate: the skip-set is overwritten instead of extended
SkipUpdate_Replaces(skip, dependent_relations) == Range(dependent_relations)

\* load.py:567-569
SkipUpdate(skip, dependent_relations) == skip \cup Range(dependent_relations)

\* mutant of ShouldRestore: no_rollback is not honoured
ShouldRestore_IgnoresNoRollback(whole_schemas_, dry_run_, no_rollback_) ==
    whole_schemas_ /\ ~dry_run_

\* load.py:576-579
ShouldRestore(whole_schemas_, dry_run_, no_rollback_) ==
    whole_schemas_ /\ ~dry_run_ /\ ~no_rollback_

\* mutant of ShouldBackup: the dry run renames the schemas too
ShouldBackup_Always(dry_run_) == TRUE

\* load.py:355-359
ShouldBackup(dry_run_) == ~dry_run_

\* load.py:586
ShouldVacuum(vacuum_ready_, drop_) == vacuum_ready_ # <<>> /\ ~drop_

\* mutant of Closing: the connection is left open
Closing_Leaks(conns_, conn) == conns_

\* load.py:354, 414, 543: contextlib.closing closes the connection on the way out
Closing(conns_, conn) == conns_ \ {conn}

\* mutant of Effects: every connection behaves as an autocommit connection
Effects_Autocommit(autocommit, r, dry_run_) ==
    IF dry_run_ THEN [pending |-> pending, durable |-> durable]
    ELSE [pending |-> pending, durable |-> durable \cup {r}]

\* load.py:542: autocommit=whole_schemas; statements on an autocommit connection
\* are durable at once, the others wait for the commit of the transaction
Effects(autocommit, r, dry_run_) ==
    IF dry_run_ THEN [pending |-> pending, durable |-> durable]
    ELSE IF autocommit THEN [pending |-> pending, durable |-> durable \cup {r}]
    ELSE [pending |-> pending \cup {r}, durable |-> durable]

\* ------------------------------------------------------------- load: inputs
InitLoad ==
    /\ InitIdle /\ pc = "start" /\ OthersIdle
    /\ relations = Ids
    /\ depends_on \in DependencyMaps
    /\ schema_of = LoadSchemaMap
    /\ selector \in SUBSET Ids
    /\ is_required \in [Ids -> BOOLEAN]
    /\ only_first = FALSE /\ whole_schemas = FALSE
    /\ drop \in BOOLEAN /\ stop_after_first \in BOOLEAN
    /\ no_rollback \in BOOLEAN /\ dry_run \in BOOLEAN

\* ------------------------------------------------------------ load: actions
\* load.py:527-535
LoadStart ==
    /\ pc = "start"
    /\ whole_schemas' = WholeSchemas(drop, stop_after_first)
    /\ only_first' = stop_after_first
    /\ LET res == evaluate_execution_order(relations, selector, only_first', whole_schemas')
       IN  /\ complete_sequence' = res.sequence
           /\ execution_order' = res.order
           /\ involved_schemas' = res.schemas
           /\ exc' = IF res.raised = "none" THEN NoExc ELSE Raise(res.raised)
           /\ pc' = IF res.raised # "none" THEN "raised"
                    ELSE IF whole_schemas' THEN "backup" ELSE "connect"
    /\ UNCHANGED <<others, inputs, loopvars, dbvars>>

\* load.py:354: create_schemas_after_backup opens its autocommit connection
BackupConnect ==
    /\ pc = "backup"
    /\ \E ok \in BOOLEAN :
        IF ok THEN /\ conns' = conns \cup {"backup"}
                   /\ pc' = "backup_run" /\ exc' = exc
        ELSE /\ conns' = conns
             /\ pc' = "raised" /\ exc' = Raise("ConnectionError")
    /\ UNCHANGED <<others, inputs, resolver, loopvars, pending, durable, committed, rolled_back,
                   backed_up, created, restored, restore_calls, vacuum_calls, vacuumed>>

\* load.py:355-359: backup_schemas, then create_schemas; either may fail part-way;
\* closing() closes the connection on every way out
BackupRun ==
    /\ pc = "backup_run"
    /\ conns' = Closing(conns, "backup")
    /\ IF ShouldBackup(dry_run)
       THEN \/ /\ backed_up' = involved_schemas /\ created' = involved_schemas
               /\ pc' = "connect" /\ exc' = exc
            \/ \E done \in SUBSET involved_schemas :
                /\ done # involved_schemas
                /\ backed_up' = done /\ created' = created
                /\ pc' = "raised" /\ exc' = Raise("BackupError")
            \/ \E done \in SUBSET involved_schemas :
                /\ done # involved_schemas
                /\ backed_up' = involved_schemas /\ created' = done
                /\ pc' = "raised" /\ exc' = Raise("CreateError")
       ELSE /\ pc' = "connect"
            /\ UNCHANGED <<backed_up, created, exc>>
    /\ UNCHANGED <<others, inputs, resolver, loopvars, pending, durable, committed, rolled_back,
                   restored, restore_calls, vacuum_calls, vacuumed>>

\* load.py:542
PrimaryConnect ==
    /\ pc = "connect"
    /\ \E ok \in BOOLEAN :
        IF ok THEN /\ conns' = conns \cup {"primary"}
                   /\ pc' = "loop" /\ exc' = exc
        ELSE /\ conns' = conns
             /\ pc' = "raised" /\ exc' = Raise("ConnectionError")
    /\ UNCHANGED <<others, inputs, resolver, loopvars, pending, durable, committed, rolled_back,
                   backed_up, created, restored, restore_calls, vacuum_calls, vacuumed>>

\* load.py:547-549
SkipRelation ==
    /\ pc = "loop" /\ index < Len(execution_order)
    /\ LET relation == execution_order[index + 1]
       IN  /\ relation \in skip_after_fail
           /\ skipped' = skipped \cup {relation}
    /\ index' = index + 1
    /\ UNCHANGED <<others, inputs, resolver, dbvars, pc, exc,
                   skip_after_fail, vacuum_ready, kind, attempted, loaded, failed>>

\* load.py:550-573: one relation is handed to load_or_update_redshift_relation
\* (load.py:423-465), which returns whether it modified a table or raises. The
\* kind of the relation (load.py:446-457) is drawn here, where it is first read.
LoadRelation ==
    /\ pc = "loop" /\ index < Len(execution_order)
    /\ LET relation == execution_order[index + 1]
           dependent_relations == find_dependents(execution_order, <<relation>>)
           failed_and_required == FailedAndRequired(dependent_relations)
           eff == Effects(whole_schemas, relation, dry_run)
       IN  /\ relation \notin skip_after_fail
           /\ attempted' = Append(attempted, relation)
           /\ pending' = eff.pending /\ durable' = eff.durable
           /\ \E k \in Kinds \cup {"raises"} :
               /\ IF k \in Kinds
                  THEN /\ kind' = [kind EXCEPT ![relation] = k]
                       /\ loaded' = loaded \cup {relation}
                       /\ vacuum_ready' = IF Modified(k) THEN Append(vacuum_ready, relation)
                                          ELSE vacuum_ready
                       /\ index' = index + 1
                       /\ UNCHANGED <<failed, skip_after_fail, pc, exc>>
                  ELSE /\ failed' = failed \cup {relation}
                       /\ UNCHANGED <<kind, loaded, vacuum_ready>>
                       /\ IF whole_schemas
                          THEN IF IsFatal(relation, failed_and_required)
                               THEN /\ exc' = RequiredRelationLoadError(<<relation>>, failed_and_required,
                                                                     relation)
                                    /\ pc' = "handler"
                                    /\ UNCHANGED <<index, skip_after_fail>>
                               ELSE /\ skip_after_fail' = SkipUpdate(skip_after_fail, dependent_relations)
                                    /\ index' = index + 1
                                    /\ UNCHANGED <<pc, exc>>
                          ELSE /\ exc' = LoadError(relation)
                               /\ pc' = "handler"
                               /\ UNCHANGED <<index, skip_after_fail>>
    /\ UNCHANGED <<others, inputs, resolver, skipped, conns, committed, rolled_back,
                   backed_up, created, restored, restore_calls, vacuum_calls, vacuumed>>

\* load.py:543, the with block left without an exception: the connection commits
\* its transaction (there is one when autocommit is off) and is closed
LoopDone ==
    /\ pc = "loop" /\ index = Len(execution_order)
    /\ committed' = ~whole_schemas
    /\ durable' = durable \cup pending /\ pending' = {}
    /\ conns' = Closing(conns, "primary")
    /\ pc' = "after_loop"
    /\ UNCHANGED <<others, inputs, resolver, loopvars, exc, rolled_back,
                   backed_up, created, restored, restore_calls, vacuum_calls, vacuumed>>

\* load.py:575-582: restore_schemas gets a connection of its own
Handler ==
    /\ pc = "handler"
    /\ IF ShouldRestore(whole_schemas, dry_run, no_rollback)
       THEN /\ conns' = conns \cup {"restore"}
            /\ restored' = restored \cup involved_schemas
            /\ restore_calls' = restore_calls + 1
       ELSE UNCHANGED <<conns, restored, restore_calls>>
    /\ pc' = "unwind"
    /\ UNCHANGED <<others, inputs, resolver, loopvars, exc, pending, durable, committed, rolled_back,
                   backed_up, created, vacuum_calls, vacuumed>>

\* load.py:583 and 543: the exception leaves the with block, the connection rolls
\* back its transaction and is closed, the caller gets the exception
Unwind ==
    /\ pc = "unwind"
    /\ rolled_back' = ~whole_schemas
    /\ pending' = {}
    /\ conns' = Closing(conns, "primary")
    /\ pc' = "raised"
    /\ UNCHANGED <<others, inputs, resolver, loopvars, exc, durable, committed,
                   backed_up, created, restored, restore_calls, vacuum_calls, vacuumed>>

\* load.py:586-587 and 414: vacuum is called and opens its autocommit connection
VacuumConnect ==
    /\ pc = "after_loop"
    /\ ShouldVacuum(vacuum_ready, drop)
    /\ vacuum_calls' = vacuum_calls + 1
    /\ conns' = conns \cup {"vacuum"}
    /\ pc' = "vacuum"
    /\ UNCHANGED <<others, inputs, resolver, loopvars, exc, pending, durable, committed, rolled_back,
                   backed_up, created, restored, restore_calls, vacuumed>>

\* load.py:415-420
VacuumRun ==
    /\ pc = "vacuum"
    /\ vacuumed' = IF dry_run THEN vacuumed ELSE vacuumed \o vacuum_ready
    /\ conns' = Closing(conns, "vacuum")
    /\ pc' = "returned"
    /\ UNCHANGED <<others, inputs, resolver, loopvars, exc, pending, durable, committed, rolled_back,
                   backed_up, created, restored, restore_calls, vacuum_calls>>

\* load.py:586: nothing to vacuum
Return ==
    /\ pc = "after_loop"
    /\ ~ShouldVacuum(vacuum_ready, drop)
    /\ pc' = "returned"
    /\ UNCHANGED <<others, inputs, resolver, loopvars, dbvars, exc>>

Next ==
    \/ LoadStart
    \/ BackupConnect
    \/ BackupRun
    \/ PrimaryConnect
    \/ SkipRelation
    \/ LoadRelation
    \/ LoopDone
    \/ Handler
    \/ Unwind
    \/ VacuumConnect
    \/ VacuumRun
    \/ Return

Spec == InitLoad /\ [][Next]_vars


\* Either entry point: a direct call of evaluate_execution_order, or a load.
InitBoth == InitOrder \/ InitLoad

NextBoth == NextOrder \/ Next

SpecBoth == InitBoth /\ [][NextBoth]_vars

\* ------------------------------------------------- find_dependents, alone
\* No load and no call of evaluate_execution_order is under way.
LoadOff ==
    /\ InitIdle /\ pc = "off"
    /\ schema_of = LoadSchemaMap /\ selector = {}
    /\ only_first = FALSE /\ whole_schemas = FALSE
    /\ drop = FALSE /\ stop_after_first = FALSE /\ no_rollback = FALSE /\ dry_run = FALSE

\* The two ways load.py calls find_dependents: on a full dependency order with
\* the selected relations as seeds (load.py:493), and on a worklist, which is a
\* subsequence of such an order, with one relation as seed (load.py:559).
InitDependents ==
    /\ LoadOff /\ is_required = [r \in Ids |-> FALSE]
    /\ relations \in SUBSET Ids
    /\ depends_on \in DependencyMaps
    /\ order_by_dependencies(relations).raised = "none"
    /\ fd_pc = "call"
    /\ \E W \in SUBSET relations :
          /\ fd_order = Filter(order_by_dependencies(relations).order, W)
          /\ \E S \in SUBSET W : fd_seeds = Filter(fd_order, S)
    /\ fd_result = <<>> /\ fd_again = <<>>
    /\ RetryIdle /\ ExtractIdle /\ MoreIdle

\* load.py:493, load.py:559
FindDependents ==
    /\ fd_pc = "call"
    /\ fd_result' = find_dependents(fd_order, fd_seeds)
    /\ fd_pc' = "called"
    /\ UNCHANGED <<inputs, resolver, loopvars, dbvars, pc, exc, retryvars, extractvars, morevars,
                   fd_order, fd_seeds, fd_again>>

\* a second call, with the seeds and the result of the first as seeds
FindDependentsAgain ==
    /\ fd_pc = "called"
    /\ fd_again' = find_dependents(fd_order,
                                   Filter(fd_order, Range(fd_seeds) \cup Range(fd_result)))
    /\ fd_pc' = "again"
    /\ UNCHANGED <<inputs, resolver, loopvars, dbvars, pc, exc, retryvars, extractvars, morevars,
                   fd_order, fd_seeds, fd_result>>

NextDependents == FindDependents \/ FindDependentsAgain

SpecDependents == InitDependents /\ [][NextDependents]_vars

\* ------------------------------------------------------------------- retry
\* errors.py:8-220: the exception classes func is let to raise here, and the
\* base class of each; ValueError stands for the exceptions that are not ETLError
Parent ==
    [c \in {"Exception", "ValueError", "ETLError", "ETLRuntimeError", "TransientETLError",
            "DataExtractError", "MissingCsvFilesError", "S3ServiceError",
            "RetriesExhaustedError"} |->
        CASE c = "Exception" -> "Exception"
          [] c = "ValueError" -> "Exception"
          [] c = "ETLError" -> "Exception"
          [] c = "ETLRuntimeError" -> "ETLError"
          [] c = "TransientETLError" -> "ETLRuntimeError"
          [] c = "DataExtractError" -> "TransientETLError"
          [] c = "MissingCsvFilesError" -> "DataExtractError"
          [] c = "S3ServiceError" -> "ETLRuntimeError"
          [] c = "RetriesExhaustedError" -> "ETLRuntimeError"]

\* isinstance: what an except clause tests
RECURSIVE IsInstance(_, _)
IsInstance(cls, base) ==
    IF cls = base THEN TRUE
    ELSE IF Parent[cls] = cls THEN FALSE
    ELSE IsInstance(Parent[cls], base)

\* mutant of IsTransient: every runtime error is retried
IsTransient_AnyRuntimeError(cls) == IsInstance(cls, "ETLRuntimeError")

\* errors.py:248
IsTransient(cls) == IsInstance(cls, "TransientETLError")

\* errors.py:253
SleepBase == 5

\* mutant of SleepTime: the sleep grows linearly
SleepTime_Linear(attempt_) == SleepBase * (attempt_ + 1)

\* errors.py:253
SleepTime(attempt_) == SleepBase ^ (attempt_ + 1)

\* mutant of RemainingAttempts: counts the attempt that has just failed
RemainingAttempts_CountsThisOne(max_retries_, attempt_) == max_retries_ - attempt_ + 1

\* errors.py:251
RemainingAttempts(max_retries_, attempt_) == max_retries_ - attempt_

\* what func may do when it is called: return a value or raise
Results == {"a", "b"}
Raisable == {"TransientETLError", "MissingCsvFilesError", "S3ServiceError", "ValueError"}

CallEvent(n, outcome) == [ev |-> "call", n |-> n, outcome |-> outcome, secs |-> 0]
SleepEvent(secs) == [ev |-> "sleep", n |-> 0, outcome |-> "None", secs |-> secs]

NumCalls(log) == Len(SelectSeq(log, LAMBDA e : e.ev = "call"))

\* errors.py:267-268
RetriesExhaustedError(cause) == [cls |-> "RetriesExhaustedError", at |-> 0, cause |-> cause]

InitRetry ==
    /\ LoadOff /\ relations = {} /\ depends_on = [r \in Ids |-> {}]
    /\ is_required = [r \in Ids |-> FALSE]
    /\ DependentsIdle /\ ExtractIdle /\ MoreIdle
    /\ max_retries \in 0..MaxRetries
    /\ attempt = 0 /\ r_pc = "call"
    /\ failure_reason = None /\ successful_result = "None"
    /\ r_exc = [cls |-> "None", at |-> 0, cause |-> None]
    /\ r_log = <<>>

\* errors.py:245-266: one pass of the loop up to the sleep; the loop is over
\* after the pass with attempt = max_retries (errors.py:267-268)
RetryCall ==
    /\ r_pc = "call" /\ attempt <= max_retries
    /\ \E outcome \in Results \cup Raisable :
        LET n == NumCalls(r_log) + 1
        IN  /\ r_log' = Append(r_log, CallEvent(n, outcome))
            /\ IF outcome \in Results
               THEN /\ successful_result' = outcome
                    /\ r_pc' = "returned"
                    /\ UNCHANGED <<failure_reason, r_exc, attempt>>
               ELSE IF IsTransient(outcome)
               THEN /\ failure_reason' = Err(outcome, n)
                    /\ IF RemainingAttempts(max_retries, attempt) # 0
                       THEN /\ r_pc' = "sleep"
                            /\ UNCHANGED <<r_exc, attempt>>
                       ELSE /\ attempt' = attempt + 1
                            /\ IF attempt' <= max_retries
                               THEN r_pc' = "call" /\ r_exc' = r_exc
                               ELSE /\ r_pc' = "raised"
                                    /\ r_exc' = RetriesExhaustedError(failure_reason')
                    /\ UNCHANGED successful_result
               ELSE /\ r_pc' = "raised"
                    /\ r_exc' = [cls |-> outcome, at |-> n, cause |-> None]
                    /\ UNCHANGED <<failure_reason, successful_result, attempt>>
    /\ UNCHANGED <<inputs, resolver, loopvars, dbvars, pc, exc, fdvars, extractvars, morevars,
                   max_retries>>

\* errors.py:253-261: the sleep, then the next pass of the loop or its end
RetrySleep ==
    /\ r_pc = "sleep"
    /\ r_log' = Append(r_log, SleepEvent(SleepTime(attempt)))
    /\ attempt' = attempt + 1
    /\ IF attempt' <= max_retries
       THEN r_pc' = "call" /\ r_exc' = r_exc
       ELSE /\ r_pc' = "raised"
            /\ r_exc' = RetriesExhaustedError(failure_reason)
    /\ UNCHANGED <<inputs, resolver, loopvars, dbvars, pc, exc, fdvars, extractvars, morevars,
                   max_retries, failure_reason, successful_result>>

\* errors.py:245, 267-268: range(max_retries + 1) is empty, so the body of the
\* loop is never entered and its else branch raises
RetryEmpty ==
    /\ r_pc = "call" /\ attempt = 0 /\ max_retries + 1 <= 0
    /\ r_pc' = "raised"
    /\ r_exc' = RetriesExhaustedError(failure_reason)
    /\ UNCHANGED <<inputs, resolver, loopvars, dbvars, pc, exc, fdvars, extractvars, morevars,
                   max_retries, attempt, failure_reason, successful_result, r_log>>

NextRetry == RetryCall \/ RetrySleep

SpecRetry == InitRetry /\ [][NextRetry]_vars

\* one call of retry with any max_retries, negative ones included
InitRetryAny ==
    /\ LoadOff /\ relations = {} /\ depends_on = [r \in Ids |-> {}]
    /\ is_required = [r \in Ids |-> FALSE]
    /\ DependentsIdle /\ ExtractIdle /\ MoreIdle
    /\ max_retries \in (0 - MaxRetries)..MaxRetries
    /\ attempt = 0 /\ r_pc = "call"
    /\ failure_reason = None /\ successful_result = "None"
    /\ r_exc = [cls |-> "None", at |-> 0, cause |-> None]
    /\ r_log = <<>>

NextRetryAny == RetryCall \/ RetrySleep \/ RetryEmpty

SpecRetryAny == InitRetryAny /\ [][NextRetryAny]_vars

\* --------------------------------------------------------------- extractor
\* the upstream sources of self.schemas
Sources == {"A", "B"}

\* extractor.py:89
MaxWorkers == Cardinality(Sources)

\* what extract_table may do: return, raise an ETLRuntimeError, or raise an
\* exception that is not one
ExtractOutcomes == {"ok", "ETLRuntimeError", "Exception"}

\* extractor.py:92: itertools.groupby starts a new group whenever the key
\* changes from one element to the next
RECURSIVE GroupBy(_, _)
GroupBy(seq, groups) ==
    IF seq = <<>> THEN groups
    ELSE LET r == Head(seq)
             n == Len(groups)
         IN  IF n > 0 /\ source_of[groups[n][1]] = source_of[r]
             THEN GroupBy(Tail(seq), [groups EXCEPT ![n] = Append(@, r)])
             ELSE GroupBy(Tail(seq), Append(groups, <<r>>))

\* extractor.py:93: the future of extract_source(source, group); pos is the
\* number of relations the loop of extract_source has gone past, busy says
\* that extract_table is running for the next one
Future(group) ==
    [source |-> source_of[group[1]], group |-> group, pos |-> 0, busy |-> FALSE,
     state |-> "queued", failed |-> <<>>, exc |-> [cls |-> "None", rel |-> 0]]

Completed(f) == f.state \in {"finished", "raised"}

Running == {i \in 1..Len(futures) : futures[i].state = "running"}

\* mutant of Reaction: keep_going is not looked at
Reaction_IgnoresKeepGoing(required, keep_going_) ==
    IF ~required THEN "continue" ELSE "raise"

\* extractor.py:71-78: what extract_source does with an ETLRuntimeError
Reaction(required, keep_going_) ==
    IF ~required THEN "continue"
    ELSE IF keep_going_ THEN "continue"
    ELSE "raise"

\* mutant of WaitOver: also with keep_going the wait ends at the first exception
WaitOver_FirstException(keep_going_) ==
    \/ \A i \in 1..Len(futures) : Completed(futures[i])
    \/ \E i \in 1..Len(futures) : futures[i].state = "raised"

\* extractor.py:95-98: ALL_COMPLETED or FIRST_EXCEPTION
WaitOver(keep_going_) ==
    \/ \A i \in 1..Len(futures) : Completed(futures[i])
    \/ ~keep_going_ /\ \E i \in 1..Len(futures) : futures[i].state = "raised"

\* An extractor whose worklist is the relations 1..n in this order, each with
\* any source; failed_sources may hold what an earlier run left there.
InitExtract ==
    /\ LoadOff /\ relations = {} /\ depends_on = [r \in Ids |-> {}]
    /\ DependentsIdle /\ RetryIdle /\ MoreIdle
    /\ e_pc = "start"
    /\ \E n \in 0..NumRelations : descriptions = [k \in 1..n |-> k]
    /\ source_of \in [Ids -> Sources]
    /\ is_required \in [Ids -> BOOLEAN]
    /\ keep_going \in BOOLEAN
    /\ failed_sources \in SUBSET Sources
    /\ futures = <<>> /\ done_ = {} /\ not_done = {} /\ missing_tables = {}
    /\ e_exc = [cls |-> "None", rel |-> 0]
    /\ rel_state = [r \in Ids |-> "pending"] /\ attempts = [r \in Ids |-> 0]

\* extractor.py:87-94
Submit ==
    /\ e_pc = "start"
    /\ failed_sources' = {}
    /\ LET groups == GroupBy(descriptions, <<>>)
       IN  futures' = [i \in 1..Len(groups) |-> Future(groups[i])]
    /\ e_pc' = "wait"
    /\ UNCHANGED <<inputs, resolver, loopvars, dbvars, pc, exc, fdvars, retryvars, morevars,
                   descriptions, source_of, keep_going, done_, not_done, missing_tables,
                   e_exc, rel_state, attempts>>

\* a worker thread takes the oldest queued task and enters extract_source
\* (extractor.py:55-67): extract_table is called for its first relation
TaskBegin(i) ==
    /\ futures[i].state = "queued"
    /\ Cardinality(Running) < MaxWorkers
    /\ \A j \in 1..(i - 1) : futures[j].state # "queued"
    /\ LET r == futures[i].group[1]
       IN  /\ futures' = [futures EXCEPT ![i].state = "running", ![i].busy = TRUE]
           /\ rel_state' = [rel_state EXCEPT ![r] = "extracting"]
           /\ attempts' = [attempts EXCEPT ![r] = @ + 1]
    /\ UNCHANGED <<inputs, resolver, loopvars, dbvars, pc, exc, fdvars, retryvars, morevars,
                   descriptions, source_of, keep_going, failed_sources, e_pc,
                   done_, not_done, missing_tables, e_exc>>

\* extractor.py:59-67: extract_table is called for the next relation
ExtractBegin(i) ==
    /\ futures[i].state = "running" /\ ~futures[i].busy
    /\ LET r == futures[i].group[futures[i].pos + 1]
       IN  /\ futures' = [futures EXCEPT ![i].busy = TRUE]
           /\ rel_state' = [rel_state EXCEPT ![r] = "extracting"]
           /\ attempts' = [attempts EXCEPT ![r] = @ + 1]
    /\ UNCHANGED <<inputs, resolver, loopvars, dbvars, pc, exc, fdvars, retryvars, morevars,
                   descriptions, source_of, keep_going, failed_sources, e_pc,
                   done_, not_done, missing_tables, e_exc>>

\* the task goes on after a relation: to the next one, or extract_source returns
\* its list (extractor.py:79-81)
GoOn(f, failed_) ==
    [f EXCEPT !.busy = FALSE, !.pos = @ + 1, !.failed = failed_,
              !.state = IF f.pos + 1 = Len(f.group) THEN "finished" ELSE "running"]

\* mutant of Caught: every exception is caught
Caught_Everything(outcome) == outcome # "ok"

\* extractor.py:68: except ETLRuntimeError
Caught(outcome) == outcome = "ETLRuntimeError"

\* extractor.py:67-78: extract_table returns or raises
ExtractEnd(i) ==
    /\ futures[i].state = "running" /\ futures[i].busy
    /\ LET f == futures[i]
           r == f.group[f.pos + 1]
       IN  \E outcome \in ExtractOutcomes :
            CASE outcome = "ok" ->
                    /\ futures' = [futures EXCEPT ![i] = GoOn(f, f.failed)]
                    /\ rel_state' = [rel_state EXCEPT ![r] = "succeeded"]
                    /\ UNCHANGED failed_sources
              [] outcome # "ok" /\ Caught(outcome) ->
                    /\ failed_sources' = failed_sources \cup {f.source}
                    /\ rel_state' = [rel_state EXCEPT ![r] = "failed"]
                    /\ IF Reaction(is_required[r], keep_going) = "continue"
                       THEN futures' = [futures EXCEPT ![i] = GoOn(f, Append(f.failed, r))]
                       ELSE futures' = [futures EXCEPT ![i] =
                                [f EXCEPT !.busy = FALSE, !.state = "raised",
                                          !.failed = Append(f.failed, r),
                                          !.exc = [cls |-> outcome, rel |-> r]]]
              [] outcome # "ok" /\ ~Caught(outcome) ->
                    /\ futures' = [futures EXCEPT ![i] =
                                [f EXCEPT !.busy = FALSE, !.state = "raised",
                                          !.exc = [cls |-> outcome, rel |-> r]]]
                    /\ rel_state' = [rel_state EXCEPT ![r] = "failed"]
                    /\ UNCHANGED failed_sources
    /\ UNCHANGED <<inputs, resolver, loopvars, dbvars, pc, exc, fdvars, retryvars, morevars,
                   descriptions, source_of, keep_going, e_pc,
                   done_, not_done, missing_tables, e_exc, attempts>>

\* extractor.py:95-98: concurrent.futures.wait returns
Wait ==
    /\ e_pc = "wait"
    /\ WaitOver(keep_going)
    /\ done_' = {i \in 1..Len(futures) : Completed(futures[i])}
    /\ not_done' = {i \in 1..Len(futures) : ~Completed(futures[i])}
    /\ e_pc' = "shutdown"
    /\ UNCHANGED <<inputs, resolver, loopvars, dbvars, pc, exc, fdvars, retryvars, morevars,
                   descriptions, source_of, keep_going, failed_sources, futures,
                   missing_tables, e_exc, rel_state, attempts>>

\* extractor.py:90, the end of the with block: the executor is shut down, which
\* waits until every task that was submitted has run
Shutdown ==
    /\ e_pc = "shutdown"
    /\ \A i \in 1..Len(futures) : Completed(futures[i])
    /\ e_pc' = "collect"
    /\ UNCHANGED <<inputs, resolver, loopvars, dbvars, pc, exc, fdvars, retryvars, morevars,
                   descriptions, source_of, keep_going, failed_sources, futures,
                   done_, not_done, missing_tables, e_exc, rel_state, attempts>>

\* extractor.py:108-109: "Extract failed to complete for {:d} source(s)"
DataExtractError(unfinished) ==
    [cls |-> "DataExtractError", rel |-> 0, unfinished |-> unfinished]

\* extractor.py:103-109: result() raises the exception of a task that raised;
\* done is a set, so any of its tasks that raised may come first
Collect ==
    /\ e_pc = "collect"
    /\ LET raisers == {i \in done_ : futures[i].state = "raised"}
       IN  IF raisers # {}
           THEN /\ \E i \in raisers : e_exc' = futures[i].exc
                /\ e_pc' = "raised"
                /\ missing_tables' = missing_tables
           ELSE /\ missing_tables' = UNION {Range(futures[i].failed) : i \in done_}
                /\ IF not_done # {}
                   THEN e_pc' = "raised" /\ e_exc' = DataExtractError(Cardinality(not_done))
                   ELSE e_pc' = "returned" /\ e_exc' = e_exc
    /\ UNCHANGED <<inputs, resolver, loopvars, dbvars, pc, exc, fdvars, retryvars, morevars,
                   descriptions, source_of, keep_going, failed_sources, futures,
                   done_, not_done, rel_state, attempts>>

NextExtract ==
    \/ Submit
    \/ \E i \in 1..Len(futures) : TaskBegin(i)
    \/ \E i \in 1..Len(futures) : ExtractBegin(i)
    \/ \E i \in 1..Len(futures) : ExtractEnd(i)
    \/ Wait
    \/ Shutdown
    \/ Collect

SpecExtract == InitExtract /\ [][NextExtract]_vars

\* ------------------------------------------- dump.py and the manifest files
\* mutant of SkipsExisting: an existing file is always written again
SkipsExisting_Never(overwrite, exists) == FALSE

\* dump.py:175, dump.py:245: not overwrite and os.path.exists(filename)
SkipsExisting(overwrite, exists) == ~overwrite /\ exists

\* mutant of WaitForMarker: a dry run waits as well
WaitForMarker_AlsoDryRun(needs_to_wait_, dry_run_) == needs_to_wait_

\* extractor.py:125: wait=self.needs_to_wait and not self.dry_run
WaitForMarker(needs_to_wait_, dry_run_) == needs_to_wait_ /\ ~dry_run_

StartsWith(path, prefix) ==
    Len(path) >= Len(prefix) /\ SubSeq(path, 1, Len(prefix)) = prefix

\* etl.s3.list_objects_for_prefix
list_objects_for_prefix(objs, prefix) ==
    {key \in ObjectKeys : objs[key] # Absent /\ StartsWith(key, prefix)}

\* how writing the CSV file may end (dump.py:249-271)
DownloadOutcomes ==
    {"ok", "cannot open", "INSUFFICIENT_PRIVILEGE", "psycopg2.Error", "Exception"}

\* Some files and objects exist already. Either a table is dumped and a
\* manifest is written for local files, or an extractor publishes the manifest
\* of a relation whose data lies in the bucket.
InitFiles ==
    /\ InitIdle /\ pc = "off"
    /\ schema_of = LoadSchemaMap /\ selector = {}
    /\ only_first = FALSE /\ whole_schemas = FALSE
    /\ drop = FALSE /\ stop_after_first = FALSE /\ no_rollback = FALSE
    /\ relations = {} /\ depends_on = [r \in Ids |-> {}]
    /\ is_required = [r \in Ids |-> FALSE]
    /\ DependentsIdle /\ RetryIdle /\ ExtractIdle /\ RelationIdle
    /\ f_call = NoCall /\ uploads = {}
    /\ \/ /\ dry_run = FALSE /\ needs_to_wait = FALSE
          /\ objects = [k \in ObjectKeys |-> Absent]
          /\ local_files \in LocalFileLists
          /\ \E existing \in SUBSET LocalPaths :
                /\ existing \subseteq
                      {CsvFile, DesignFile} \cup
                      (IF DataFiles(local_files) = <<>> THEN {}
                       ELSE {ManifestName(DataFiles(local_files))})
                /\ fs = [p \in LocalPaths |-> IF p \in existing THEN Old ELSE Absent]
       \/ /\ dry_run \in BOOLEAN /\ needs_to_wait \in BOOLEAN
          /\ local_files = <<>>
          /\ fs = [p \in LocalPaths |-> Absent]
          /\ \E existing \in SUBSET ObjectKeys :
                objects = [k \in ObjectKeys |-> IF k \in existing THEN Old ELSE Absent]

\* dump.py:230-273
download_table_data ==
    \E overwrite, dry_run_ \in BOOLEAN :
        /\ IF dry_run_ \/ SkipsExisting(overwrite, fs[CsvFile] # Absent)
           THEN /\ f_call' = Call("download_table_data", overwrite, dry_run_, NoPath, "None")
                /\ UNCHANGED fs
           ELSE \E outcome \in DownloadOutcomes :
                CASE outcome = "ok" ->
                        /\ fs' = [fs EXCEPT ![CsvFile] = <<"csv">>]
                        /\ f_call' = Call("download_table_data", overwrite, dry_run_,
                                          CsvFile, "None")
                  [] outcome = "cannot open" ->
                        /\ fs' = [fs EXCEPT ![CsvFile] = Absent]
                        /\ f_call' = Call("download_table_data", overwrite, dry_run_, NoPath,
                                          IF fs[CsvFile] = Absent THEN "FileNotFoundError"
                                          ELSE "Exception")
                  [] outcome = "INSUFFICIENT_PRIVILEGE" ->
                        /\ fs' = [fs EXCEPT ![CsvFile] = Absent]
                        /\ f_call' = Call("download_table_data", overwrite, dry_run_,
                                          NoPath, "None")
                  [] OTHER ->
                        /\ fs' = [fs EXCEPT ![CsvFile] = Absent]
                        /\ f_call' = Call("download_table_data", overwrite, dry_run_,
                                          NoPath, outcome)
        /\ UNCHANGED <<inputs, resolver, loopvars, dbvars, pc, exc, fdvars, retryvars,
                       extractvars, relvars, objects, local_files, needs_to_wait, uploads>>

\* dump.py:164-206
save_table_design ==
    \E overwrite, dry_run_ \in BOOLEAN :
        /\ IF dry_run_ \/ SkipsExisting(overwrite, fs[DesignFile] # Absent)
           THEN /\ f_call' = Call("save_table_design", overwrite, dry_run_, NoPath, "None")
                /\ UNCHANGED fs
           ELSE \E valid \in BOOLEAN :
                IF valid
                THEN /\ fs' = [fs EXCEPT ![DesignFile] = <<"design">>]
                     /\ f_call' = Call("save_table_design", overwrite, dry_run_,
                                       DesignFile, "None")
                ELSE /\ f_call' = Call("save_table_design", overwrite, dry_run_,
                                       NoPath, "TableDesignError")
                     /\ UNCHANGED fs
        /\ UNCHANGED <<inputs, resolver, loopvars, dbvars, pc, exc, fdvars, retryvars,
                       extractvars, relvars, objects, local_files, needs_to_wait, uploads>>

\* s3.py:224-249
write_manifest_file ==
    \E dry_run_ \in BOOLEAN, prefix \in {"p"} :
        /\ LET data_files == DataFiles(local_files)
           IN  IF Len(data_files) = 0
               THEN /\ f_call' = Call("write_manifest_file", FALSE, dry_run_,
                                      NoPath, "ValueError")
                    /\ UNCHANGED fs
               ELSE LET filename == ManifestName(data_files)
                        remote_files == [k \in 1..Len(data_files) |->
                                            RemoteFile(Bucket, prefix, data_files[k])]
                        manifest == Manifest(remote_files)
                    IN  IF dry_run_
                        THEN /\ f_call' = Call("write_manifest_file", FALSE, dry_run_,
                                               filename, "None")
                             /\ UNCHANGED fs
                        ELSE \E opened \in BOOLEAN :
                             IF opened
                             THEN /\ fs' = [fs EXCEPT ![filename] = Dump(manifest)]
                                  /\ f_call' = Call("write_manifest_file", FALSE, dry_run_,
                                                    filename, "None")
                             ELSE /\ f_call' = Call("write_manifest_file", FALSE, dry_run_,
                                                    NoPath, "OSError")
                                  /\ UNCHANGED fs
        /\ UNCHANGED <<inputs, resolver, loopvars, dbvars, pc, exc, fdvars, retryvars,
                       extractvars, relvars, objects, local_files, needs_to_wait, uploads>>

\* extractor.py:111-147; the marker may appear while
\* get_s3_object_last_modified waits for it
Extractor_write_manifest_file ==
    \E appears, uploaded \in BOOLEAN :
        /\ LET wait == WaitForMarker(needs_to_wait, dry_run)
               found == IF wait /\ appears /\ objects[SuccessKey] = Absent
                        THEN [objects EXCEPT ![SuccessKey] = <<"marker">>]
                        ELSE objects
               have_success == found[SuccessKey] # Absent
               csv_files == Sorted({key \in list_objects_for_prefix(found, Prefix) :
                                        IsCsvFile(key)})
               remote_files == [k \in 1..Len(csv_files) |->
                                   RemoteObject(Bucket, csv_files[k])]
               manifest == Manifest(remote_files)
               call == [Call("Extractor.write_manifest_file", FALSE, dry_run, NoPath, "None")
                            EXCEPT !.waited = wait]
           IN  IF ~have_success /\ ~dry_run
               THEN /\ objects' = found
                    /\ f_call' = [call EXCEPT !.raised = "MissingCsvFilesError"]
               ELSE IF Len(csv_files) = 0 /\ ~dry_run
               THEN /\ objects' = found
                    /\ f_call' = [call EXCEPT !.raised = "MissingCsvFilesError"]
               ELSE IF dry_run
               THEN /\ objects' = found
                    /\ f_call' = [call EXCEPT !.warned = ~have_success]
               ELSE IF uploaded
               THEN /\ objects' = [found EXCEPT ![ManifestKey] = Dump(manifest)]
                    /\ f_call' = [call EXCEPT !.result = ManifestKey]
               ELSE /\ objects' = found
                    /\ f_call' = [call EXCEPT !.raised = "Exception"]
        /\ UNCHANGED <<inputs, resolver, loopvars, dbvars, pc, exc, fdvars, retryvars,
                       extractvars, relvars, fs, local_files, needs_to_wait, uploads>>

\* what filename may be: None, the name of a file, or a future of
\* download_table_data or save_table_design that returned either or raised
UploadArguments ==
    {[future |-> fut, raised |-> FALSE, name |-> n] :
        fut \in BOOLEAN, n \in {NoPath, CsvFile, DesignFile}}
    \cup {[future |-> TRUE, raised |-> TRUE, name |-> NoPath]}

\* s3.py:88
ObjectKey(prefix, filename) == prefix \o <<"/">> \o basename(filename)

\* s3.py:73-98; _get_bucket or bucket.upload_file may raise, and they do when
\* the file does not exist; s3.py:97-98 catches what they raise and logs it
upload_to_s3 ==
    \E filename \in UploadArguments, dry_run_ \in BOOLEAN :
        LET call == Call("upload_to_s3", FALSE, dry_run_, filename.name, "None")
        IN  /\ IF filename.raised
               THEN /\ f_call' = [call EXCEPT !.raised = "Exception"]
                    /\ UNCHANGED uploads
               ELSE IF filename.name = NoPath
               THEN /\ f_call' = call
                    /\ UNCHANGED uploads
               ELSE IF dry_run_
               THEN /\ f_call' = [call EXCEPT !.upload = "skipped"]
                    /\ UNCHANGED uploads
               ELSE \E outcome \in {"ok", "Exception"} :
                    /\ fs[filename.name] = Absent => outcome = "Exception"
                    /\ IF outcome = "ok"
                       THEN /\ uploads' = uploads \cup {ObjectKey(Prefix, filename.name)}
                            /\ f_call' = [call EXCEPT !.upload = "done"]
                       ELSE /\ f_call' = [call EXCEPT !.upload = "failed"]
                            /\ UNCHANGED uploads
            /\ UNCHANGED <<inputs, resolver, loopvars, dbvars, pc, exc, fdvars, retryvars,
                           extractvars, relvars, fs, objects, local_files, needs_to_wait>>

\* a table is dumped and its files are uploaded
InitUpload ==
    /\ InitFiles /\ ~dry_run /\ ~needs_to_wait
    /\ local_files = <<>> /\ objects = [k \in ObjectKeys |-> Absent]

NextUpload ==
    \/ download_table_data
    \/ save_table_design
    \/ upload_to_s3

SpecUpload == InitUpload /\ [][NextUpload]_vars

NextFiles ==
    \/ download_table_data
    \/ save_table_design
    \/ write_manifest_file
    \/ Extractor_write_manifest_file

SpecFiles == InitFiles /\ [][NextFiles]_vars

\* ------------------------------------- load_or_update_redshift_relation
\* table designs and table contents for the load of one relation
SampleDesigns ==
    { TableDesign(FALSE, <<>>),
      TableDesign(TRUE, <<>>),
      TableDesign(TRUE, <<[type |-> "unique", columns |-> <<"c1">>]>>),
      TableDesign(TRUE, <<[type |-> "primary_key", columns |-> <<"c1">>],
                          [type |-> "unique", columns |-> <<"c1", "c2">>]>>) }

SampleTables ==
    { EmptyTable,
      [EmptyTable EXCEPT ![<<"a", "a">>] = 2],
      [EmptyTable EXCEPT ![<<NULL, "a">>] = 2] }

\* the function of the plan that is to be called next
CurrentStep ==
    IF l_exc = NoError /\ l_pc \in 1..Len(l_plan) THEN l_plan[l_pc] ELSE "none"

\* The statements of script are sent in order. Either the warehouse accepts
\* them all and the function returns, or it rejects one, which raises
\* psycopg2.Error out of the function.
Execute(script) ==
    \E n \in 0..Len(script) :
        IF n = Len(script)
        THEN /\ statements' = statements \o script
             /\ l_pc' = l_pc + 1
             /\ l_exc' = l_exc
        ELSE /\ statements' = statements \o SubSeq(script, 1, n) \o <<Failing(script[n + 1])>>
             /\ l_pc' = l_pc
             /\ l_exc' = Error("psycopg2.Error")

\* One call of load_or_update_redshift_relation: a relation of any kind, any
\* flags, with or without manifest, identity column, reader and writer groups.
InitRelation ==
    /\ InitIdle /\ pc = "off"
    /\ schema_of = LoadSchemaMap /\ selector = {}
    /\ only_first = FALSE /\ whole_schemas = FALSE
    /\ stop_after_first = FALSE /\ no_rollback = FALSE
    /\ drop \in BOOLEAN /\ dry_run \in BOOLEAN
    /\ relations = {} /\ depends_on = [r \in Ids |-> {}]
    /\ is_required = [r \in Ids |-> FALSE]
    /\ DependentsIdle /\ RetryIdle /\ ExtractIdle /\ FilesIdle
    /\ rel_kind \in Kinds
    /\ skip_copy \in BOOLEAN /\ has_manifest \in BOOLEAN /\ has_any_identity \in BOOLEAN
    /\ reader_groups \in {<<>>, <<"readers">>} /\ writer_groups \in {<<>>, <<"writers">>}
    /\ table_design \in SampleDesigns /\ rows \in SampleTables
    /\ l_plan = <<>> /\ l_pc = 0 /\ l_exc = NoError
    /\ statements = <<>> /\ warnings = <<>> /\ modified = FALSE

\* load.py:446-457: the branch for the kind of the relation
LoadBegin ==
    /\ rel_kind \in Kinds /\ l_plan = <<>> /\ l_pc = 0
    /\ l_plan' = Plan(rel_kind)
    /\ l_pc' = 1
    /\ UNCHANGED <<inputs, resolver, loopvars, dbvars, pc, exc, fdvars, retryvars,
                   extractvars, filevars, rel_kind, skip_copy, has_manifest,
                   has_any_identity, reader_groups, writer_groups, table_design, rows,
                   l_exc, statements, warnings, modified>>

\* load.py:135-154
create_table ==
    /\ CurrentStep = "create_table"
    /\ Execute(IF dry_run THEN <<>> ELSE CreateTableScript(drop))
    /\ UNCHANGED <<inputs, resolver, loopvars, dbvars, pc, exc, fdvars, retryvars,
                   extractvars, filevars, rel_kind, skip_copy, has_manifest,
                   has_any_identity, reader_groups, writer_groups, table_design, rows,
                   l_plan, warnings, modified>>

\* load.py:157-176
create_view ==
    /\ CurrentStep = "create_view"
    /\ Execute(IF dry_run THEN <<>> ELSE CreateViewScript(drop))
    /\ UNCHANGED <<inputs, resolver, loopvars, dbvars, pc, exc, fdvars, retryvars,
                   extractvars, filevars, rel_kind, skip_copy, has_manifest,
                   has_any_identity, reader_groups, writer_groups, table_design, rows,
                   l_plan, warnings, modified>>

\* load.py:362-396
grant_access ==
    /\ CurrentStep = "grant_access"
    /\ Execute(IF dry_run THEN <<>> ELSE GrantAccessScript(reader_groups, writer_groups))
    /\ UNCHANGED <<inputs, resolver, loopvars, dbvars, pc, exc, fdvars, retryvars,
                   extractvars, filevars, rel_kind, skip_copy, has_manifest,
                   has_any_identity, reader_groups, writer_groups, table_design, rows,
                   l_plan, warnings, modified>>

\* load.py:179-231
copy_data ==
    /\ CurrentStep = "copy_data"
    /\ LET mode == CopyMode(dry_run, skip_copy)
       IN  CASE mode = "dry" ->
                    /\ warnings' = IF ~has_manifest
                                   THEN Append(warnings, "Missing manifest file")
                                   ELSE warnings
                    /\ l_pc' = l_pc + 1
                    /\ UNCHANGED <<statements, l_exc>>
             [] mode = "skip" ->
                    /\ l_pc' = l_pc + 1
                    /\ UNCHANGED <<statements, l_exc, warnings>>
             [] OTHER ->
                    /\ UNCHANGED warnings
                    /\ IF ~has_manifest
                       THEN /\ l_exc' = Error("MissingManifestError")
                            /\ UNCHANGED <<statements, l_pc>>
                       ELSE \E n \in 0..Len(CopyDataScript), load_errors \in BOOLEAN :
                            IF n = Len(CopyDataScript)
                            THEN /\ statements' = statements \o CopyDataScript
                                 /\ l_pc' = l_pc + 1
                                 /\ l_exc' = l_exc
                            ELSE /\ statements' =
                                        statements \o SubSeq(CopyDataScript, 1, n)
                                            \o <<Failing(CopyDataScript[n + 1]),
                                                 Stmt("copy_data", "ROLLBACK", "", 0)>>
                                            \o (IF load_errors
                                                THEN <<Stmt("copy_data",
                                                            "SELECT FROM stl_load_errors", "", 0)>>
                                                ELSE <<>>)
                                 /\ l_pc' = l_pc
                                 /\ l_exc' = Error("psycopg2.Error")
    /\ UNCHANGED <<inputs, resolver, loopvars, dbvars, pc, exc, fdvars, retryvars,
                   extractvars, filevars, rel_kind, skip_copy, has_manifest,
                   has_any_identity, reader_groups, writer_groups, table_design, rows,
                   l_plan, modified>>

\* load.py:294-347
create_temp_table_as_and_copy ==
    /\ CurrentStep = "create_temp_table_as_and_copy"
    /\ LET mode == CopyMode(dry_run, skip_copy)
       IN  Execute(CASE mode = "dry" -> <<>>
                     [] mode = "skip" -> ExplainScript
                     [] OTHER -> TempTableScript(has_any_identity))
    /\ UNCHANGED <<inputs, resolver, loopvars, dbvars, pc, exc, fdvars, retryvars,
                   extractvars, filevars, rel_kind, skip_copy, has_manifest,
                   has_any_identity, reader_groups, writer_groups, table_design, rows,
                   l_plan, warnings, modified>>

\* load.py:399-407
analyze ==
    /\ CurrentStep = "analyze"
    /\ Execute(IF dry_run THEN <<>> ELSE AnalyzeScript)
    /\ UNCHANGED <<inputs, resolver, loopvars, dbvars, pc, exc, fdvars, retryvars,
                   extractvars, filevars, rel_kind, skip_copy, has_manifest,
                   has_any_identity, reader_groups, writer_groups, table_design, rows,
                   l_plan, warnings, modified>>

\* load.py:590-640: one query for each constraint, in order, until one returns
\* rows
verify_constraints ==
    /\ CurrentStep = "verify_constraints"
    /\ IF ~table_design.has_constraints \/ dry_run
       THEN /\ l_pc' = l_pc + 1
            /\ UNCHANGED <<statements, l_exc>>
       ELSE LET list == table_design.constraints
            IN  \E bad \in {FirstViolated(rows, list)} :
                IF bad = 0
                THEN Execute([n \in 1..Len(list) |-> ConstraintQuery(n)])
                ELSE \E n \in 0..bad :
                     IF n = bad
                     THEN /\ statements' = statements \o [k \in 1..bad |-> ConstraintQuery(k)]
                          /\ l_pc' = l_pc
                          /\ \E results \in QueryResults(rows, list[bad].type, list[bad].columns) :
                                l_exc' = FailedConstraintError(Identifier, list[bad].type,
                                                               list[bad].columns, results)
                     ELSE /\ statements' = statements \o [k \in 1..n |-> ConstraintQuery(k)]
                                                \o <<Failing(ConstraintQuery(n + 1))>>
                          /\ l_pc' = l_pc
                          /\ l_exc' = Error("psycopg2.Error")
    /\ UNCHANGED <<inputs, resolver, loopvars, dbvars, pc, exc, fdvars, retryvars,
                   extractvars, filevars, rel_kind, skip_copy, has_manifest,
                   has_any_identity, reader_groups, writer_groups, table_design, rows,
                   l_plan, warnings, modified>>

\* load.py:456, 464-465
LoadReturn ==
    /\ rel_kind \in Kinds /\ l_plan # <<>> /\ l_pc = Len(l_plan) + 1 /\ l_exc = NoError
    /\ modified' = (rel_kind # "VIEW")
    /\ l_pc' = l_pc + 1
    /\ UNCHANGED <<inputs, resolver, loopvars, dbvars, pc, exc, fdvars, retryvars,
                   extractvars, filevars, rel_kind, skip_copy, has_manifest,
                   has_any_identity, reader_groups, writer_groups, table_design, rows,
                   l_plan, l_exc, statements, warnings>>

NextRelation ==
    \/ LoadBegin
    \/ create_table
    \/ create_view
    \/ grant_access
    \/ copy_data
    \/ create_temp_table_as_and_copy
    \/ analyze
    \/ verify_constraints
    \/ LoadReturn

SpecRelation == InitRelation /\ [][NextRelation]_vars

\* A direct call of verify_constraints on any table with any list of
\* constraints.
InitVerify ==
    /\ InitIdle /\ pc = "off"
    /\ schema_of = LoadSchemaMap /\ selector = {}
    /\ only_first = FALSE /\ whole_schemas = FALSE
    /\ stop_after_first = FALSE /\ no_rollback = FALSE
    /\ drop = FALSE /\ dry_run \in BOOLEAN
    /\ relations = {} /\ depends_on = [r \in Ids |-> {}]
    /\ is_required = [r \in Ids |-> FALSE]
    /\ DependentsIdle /\ RetryIdle /\ ExtractIdle /\ FilesIdle
    /\ rel_kind = "none"
    /\ skip_copy = FALSE /\ has_manifest = FALSE /\ has_any_identity = FALSE
    /\ reader_groups = <<>> /\ writer_groups = <<>>
    /\ table_design \in TableDesigns /\ rows \in Tables
    /\ l_plan = <<"verify_constraints">> /\ l_pc = 1 /\ l_exc = NoError
    /\ statements = <<>> /\ warnings = <<>> /\ modified = FALSE

NextVerify == verify_constraints

SpecVerify == InitVerify /\ [][NextVerify]_vars

\* load_or_update_redshift together with the statements of the load of a
\* relation
InitLoadAll == InitLoad \/ InitRelation

NextLoadAll == Next \/ NextRelation

SpecLoadAll == InitLoadAll /\ [][NextLoadAll]_vars

\* ------------------------------------------------------ vocabulary of claims
Worklist == Range(execution_order)

WholeSchemaMode == drop /\ ~stop_after_first

SchemasOfWorklist == {schema_of[r] : r \in Worklist}

\* d depends on r, directly or through a chain whose inner relations are in K
RECURSIVE DependsVia(_, _, _)
DependsVia(K, d, r) ==
    IF K = {} THEN r \in depends_on[d]
    ELSE LET k == CHOOSE x \in K : TRUE
         IN  \/ DependsVia(K \ {k}, d, r)
             \/ DependsVia(K \ {k}, k, r) /\ DependsVia(K \ {k}, d, k)

\* d depends on r through a chain of dependencies that stays inside W
DependsOnWithin(W, d, r) == d \in W /\ r \in W /\ DependsVia(W \ {d, r}, d, r)

Dependents(W, r) == {d \in W \ {r} : DependsOnWithin(W, d, r)}

\* the failure of r cannot be absorbed: r or one of its dependents is required
Blocking(r) == is_required[r] \/ \E d \in Dependents(Worklist, r) : is_required[d]

LastAttempted == attempted[Len(attempted)]


C2_OptionalFailureSkipsDependents ==
    (WholeSchemaMode /\ failed # {} /\ \A r \in failed : ~Blocking(r)) =>
        /\ exc.type = "none"
        /\ pc \in {"loop", "after_loop", "returned"}
        /\ restore_calls = 0 /\ restored = {}
        /\ \A r \in failed : Dependents(Worklist, r) \subseteq skip_after_fail
        /\ skip_after_fail \cap Range(attempted) = {}
        /\ ~dry_run => backed_up = SchemasOfWorklist
        /\ pc = "loop" => ENABLED (SkipRelation \/ LoadRelation \/ LoopDone)
        /\ pc = "after_loop" => ENABLED Return
        /\ pc \in {"after_loop", "returned"} =>
              /\ Range(attempted) =
                    Worklist \ UNION {Dependents(Worklist, r) : r \in failed}
              /\ skipped = UNION {Dependents(Worklist, r) : r \in failed}

\* C2 witness: an optional relation with two optional dependents failed, both
\* were skipped, and the run returned with the backups in place.
C2_Witness ==
    /\ pc = "returned" /\ WholeSchemaMode /\ ~dry_run
    /\ Cardinality(failed) = 1 /\ Cardinality(skipped) = 2
    /\ backed_up # {} /\ restore_calls = 0

C4_BackupBeforeFirstLoad ==
    /\ (WholeSchemaMode /\ ~dry_run /\ attempted # <<>>) =>
          /\ backed_up = SchemasOfWorklist /\ created = SchemasOfWorklist
          /\ "backup" \notin conns
    /\ created # {} => backed_up = involved_schemas
    /\ (~WholeSchemaMode \/ dry_run) =>
          /\ backed_up = {} /\ created = {} /\ restored = {} /\ restore_calls = 0

\* C4 witness: two schemas backed up and created, then a relation attempted.
C4_Witness ==
    /\ WholeSchemaMode /\ ~dry_run /\ Len(attempted) = 1
    /\ Cardinality(backed_up) = 2 /\ created = backed_up

\* C5: outside whole-schema mode the skip-set stays empty and nothing is ever
\* restored; the first failed load ends the run: it is the last relation
\* attempted, its own exception goes to the caller, the transaction is not
\* committed and nothing of the run is durable; the transaction is committed
\* only when every relation of the worklist has been loaded.
C5_FirstFailureAbortsTransaction ==
    ~WholeSchemaMode =>
        /\ skip_after_fail = {} /\ skipped = {}
        /\ restore_calls = 0 /\ restored = {}
        /\ failed # {} =>
              /\ failed = {LastAttempted}
              /\ exc.type = "LoadError" /\ exc.cause = LastAttempted
              /\ pc \in {"handler", "unwind", "raised"}
              /\ ~committed /\ durable = {}
              /\ pc = "raised" => (rolled_back /\ pending = {})
        /\ committed => (failed = {} /\ loaded = Worklist /\ attempted = execution_order)
        /\ durable # {} => committed

\* C5 witness: one relation was loaded, the next one failed, a third was never
\* attempted, and the transaction was rolled back.
C5_Witness ==
    /\ ~WholeSchemaMode /\ ~dry_run /\ pc = "raised"
    /\ loaded # {} /\ failed # {} /\ Len(attempted) < Len(execution_order)
    /\ rolled_back /\ durable = {}

\* C6: the skip-set starts empty and only grows; it only ever holds relations of
\* the worklist that are transitive dependents of a relation whose load failed
\* in this run; and no relation of the skip-set is ever handed to the loader.
C6_SkipSetGrows ==
    /\ skip_after_fail = {}
    /\ [][skip_after_fail \subseteq skip_after_fail']_vars
    /\ [](/\ skip_after_fail \subseteq Worklist
          /\ \A d \in skip_after_fail : \E r \in failed : d \in Dependents(Worklist, r)
          /\ skip_after_fail \cap Range(attempted) = {})
    /\ [][\A r \in skip_after_fail :
            (pc = "loop" /\ index < Len(execution_order) /\ execution_order[index + 1] = r)
                => attempted' = attempted]_vars

\* C6 witness: the skip-set held a relation, its turn came and it was skipped,
\* and a later relation was still loaded.
C6_Witness ==
    /\ skipped # {} /\ skipped = skip_after_fail
    /\ Len(attempted) = 2 /\ Cardinality(loaded) = 1 /\ pc = "returned"

\* C7: vacuum is called at most once; when the run has returned it has been
\* called exactly if drop is unset and a DATA or CTAS relation was loaded; it is
\* never called when an exception left the loop; its argument is the DATA and
\* CTAS relations loaded in this run, in worklist order; and while its
\* connection is open no other connection of the run is.
C7_VacuumAfterLoop ==
    LET tables == {r \in loaded : kind[r] \in {"DATA", "CTAS"}}
    IN  /\ vacuum_calls <= 1
        /\ pc = "returned" => (vacuum_calls = 1 <=> (~drop /\ tables # {}))
        /\ pc \in {"handler", "unwind", "raised"} => vacuum_calls = 0
        /\ vacuum_calls = 1 =>
              /\ failed = {} /\ skipped = {} /\ exc.type = "none"
              /\ pc \in {"vacuum", "returned"}
              /\ vacuum_ready = Filter(execution_order, tables)
              /\ (pc = "returned" /\ ~dry_run) => vacuumed = vacuum_ready
        /\ vacuum_calls = 0 => vacuumed = <<>>
        /\ "vacuum" \in conns => conns = {"vacuum"}

\* C7 witness: a view and two tables were loaded and the two tables vacuumed.
C7_Witness ==
    /\ pc = "returned" /\ vacuum_calls = 1 /\ Len(vacuumed) = 2
    /\ \E r \in loaded : kind[r] = "VIEW"


\* no relation of rels depends on itself through dependencies inside rels
Acyclic(rels) == \A r \in rels : ~DependsOnWithin(rels, r, r)

Position(seq, r) == CHOOSE k \in 1..Len(seq) : seq[k] = r

\* C8: once order_by_dependencies has run: if the dependency edges inside the
\* input are acyclic, the sequence holds every input relation exactly once and
\* each relation comes after each of its dependencies that is in the input; if
\* they have a cycle, CyclicDependencyError is raised and no order is returned.
C8_OrderByDependencies ==
    pc \notin {"call", "start"} =>
        IF Acyclic(relations)
        THEN /\ exc.type # "CyclicDependencyError"
             /\ Len(complete_sequence) = Cardinality(relations)
             /\ Range(complete_sequence) = relations
             /\ \A r \in relations : \A d \in depends_on[r] \cap relations :
                    Position(complete_sequence, d) < Position(complete_sequence, r)
        ELSE /\ pc = "raised" /\ exc.type = "CyclicDependencyError"
             /\ complete_sequence = <<>> /\ execution_order = <<>>

\* C8 witness: relation 1 depends on relation 2 of the input and on relation 3,
\* which is not in the input; the order is 2, 1.
C8_Witness ==
    /\ pc = "returned" /\ relations = {1, 2} /\ depends_on[1] = {2, 3}
    /\ complete_sequence = <<2, 1>>

\* C9: when evaluate_execution_order returns with only_first and whole_schemas
\* unset, the worklist is the selected relations and their transitive dependents,
\* nothing else, each once, in the order of the dependency order; for 2
\* depending on 1 and 3 depending on 2, selecting 2 gives 2, 3.
C9_SelectionWithDependents ==
    (pc = "returned" /\ ~only_first /\ ~whole_schemas) =>
        LET matched == selector \cap relations
            downstream == {d \in relations :
                              \E m \in matched : DependsOnWithin(relations, d, m)}
        IN  /\ Range(execution_order) = matched \cup downstream
            /\ Len(execution_order) = Cardinality(matched \cup downstream)
            /\ \A a, b \in 1..Len(execution_order) :
                  a < b => Position(complete_sequence, execution_order[a])
                             < Position(complete_sequence, execution_order[b])
            /\ (/\ relations = {1, 2, 3} /\ selector = {2}
                /\ depends_on = (1 :> {} @@ 2 :> {1} @@ 3 :> {2}))
                  => execution_order = <<2, 3>>

\* C9 witness: the chain 1 <- 2 <- 3 with 2 selected.
C9_Witness ==
    /\ pc = "returned" /\ ~only_first /\ ~whole_schemas
    /\ relations = {1, 2, 3} /\ selector = {2}
    /\ depends_on[2] = {1} /\ depends_on[3] = {2} /\ depends_on[1] = {}
    /\ execution_order = <<2, 3>>

\* C10: once evaluate_execution_order has run with only_first set on an input
\* that has an order: if the selector matches exactly one relation and
\* whole_schemas is unset, the worklist is that relation alone; otherwise
\* ValueError is raised, there is no worklist, and no schema has been backed up
\* or created, no connection opened and no relation handed to the loader.
C10_OnlyFirst ==
    (only_first /\ pc \notin {"call", "start"} /\ exc.type # "CyclicDependencyError") =>
        IF Cardinality(selector \cap relations) = 1 /\ ~whole_schemas
        THEN /\ exc.type # "ValueError"
             /\ Range(execution_order) = selector \cap relations
             /\ Len(execution_order) = 1
        ELSE /\ pc = "raised" /\ exc.type = "ValueError"
             /\ execution_order = <<>> /\ involved_schemas = {}
             /\ backed_up = {} /\ created = {} /\ conns = {}
             /\ attempted = <<>> /\ restore_calls = 0

\* C10 witness: a load with stop_after_first and drop whose selector matches two
\* relations ends with ValueError.
C10_Witness ==
    /\ stop_after_first /\ drop /\ Cardinality(selector) = 2
    /\ pc = "raised" /\ exc.type = "ValueError"

\* ---------------------------------------------------- claims on the resolver
\* the relations the selector matches and their dependents inside the input
Matched == selector \cap relations

Downstream == {d \in relations : \E m \in Matched : DependsOnWithin(relations, d, m)}

\* the relations that are to be updated before any widening
Touched == IF only_first THEN Matched ELSE Matched \cup Downstream

\* C11: whatever the two flags, the worklist evaluate_execution_order returns
\* is a subsequence of the full dependency order without duplicates: it holds
\* only relations of the input, in the order they have in the full order, so
\* every dependency of a worklist relation that is in the worklist precedes it.
C11_WorklistIsSubsequence ==
    pc = "returned" =>
        /\ Worklist \subseteq relations
        /\ Worklist \subseteq Range(complete_sequence)
        /\ Len(execution_order) = Cardinality(Worklist)
        /\ \A a, b \in 1..Len(execution_order) :
              a < b => Position(complete_sequence, execution_order[a])
                         < Position(complete_sequence, execution_order[b])
        /\ \A r \in Worklist : \A d \in depends_on[r] \cap Worklist :
              Position(execution_order, d) < Position(execution_order, r)

\* C11 witness: relation 1 depends on relation 3, both are in the worklist and
\* relation 2 is not; the worklist is 3, 1.
C11_Witness ==
    /\ pc = "returned" /\ relations = {1, 2, 3} /\ 3 \in depends_on[1]
    /\ complete_sequence = <<2, 3, 1>> /\ execution_order = <<3, 1>>

\* C12: when evaluate_execution_order returns, the schema set it returns is the
\* set of target schemas of the selected relations and (unless only_first is
\* set) their dependents, and
\* it is exactly the set of target schemas of the worklist relations; with
\* whole_schemas set the worklist holds every relation of the full order whose
\* target schema is in that set.
C12_WholeSchemasWidening ==
    pc = "returned" =>
        /\ involved_schemas = {schema_of[r] : r \in Touched}
        /\ involved_schemas = SchemasOfWorklist
        /\ whole_schemas =>
              Worklist = {r \in Range(complete_sequence) : schema_of[r] \in involved_schemas}
        /\ ~whole_schemas => Worklist = Touched

\* C12 witness: with whole_schemas set the worklist holds a relation that was
\* neither selected nor a dependent, and another schema stays untouched.
C12_Witness ==
    /\ pc = "returned" /\ whole_schemas
    /\ Worklist \ Touched # {}
    /\ Worklist # relations

\* C13: find_dependents(order, seeds) returns, and what it returns is a fixed
\* point: apart from the seeds themselves, which are never in the result, it
\* holds every relation of order that depends on a seed directly, every
\* relation of order that depends on a relation of the result, and nothing but
\* relations that depend on a seed through a chain inside order; it keeps the
\* order of order; and a second call on the seeds and the result together
\* returns no relation that is not among them already.
C13_FindDependentsFixedPoint ==
    LET O == Range(fd_order)
        S == Range(fd_seeds)
        R == Range(fd_result)
    IN  /\ fd_pc = "call" => ENABLED FindDependents
        /\ fd_pc = "called" => ENABLED FindDependentsAgain
        /\ fd_pc \in {"called", "again"} =>
              /\ R \cap S = {} /\ R \subseteq O
              /\ \A d \in O \ S : depends_on[d] \cap S # {} => d \in R
              /\ \A d \in O \ S : depends_on[d] \cap R # {} => d \in R
              /\ R = {d \in O \ S : \E s \in S : DependsOnWithin(O, d, s)}
              /\ fd_result = Filter(fd_order, R)
        /\ fd_pc = "again" => Range(fd_again) \subseteq S \cup R

\* C13 witness: a chain of three relations with the first as seed: the result
\* holds the direct and the indirect dependent, and the second call is over.
C13_Witness ==
    /\ fd_pc = "again" /\ Len(fd_order) = 3 /\ Len(fd_seeds) = 1
    /\ Len(fd_result) = 2
    /\ depends_on[fd_result[2]] = {fd_result[1]}
    /\ depends_on[fd_result[1]] = {fd_seeds[1]}

\* ------------------------------------------------------- claims on retry
\* the classes that are TransientETLError or derived from it (errors.py:38-147)
TransientClasses == {"TransientETLError", "DataExtractError", "MissingCsvFilesError"}

Calls == SelectSeq(r_log, LAMBDA e : e.ev = "call")

Sleeps == SelectSeq(r_log, LAMBDA e : e.ev = "sleep")

\* the number of calls of func that ended with a transient error
TransientFailures == Len(SelectSeq(Calls, LAMBDA e : e.outcome \in TransientClasses))

\* C15: when retry has returned after k calls of func that failed with a
\* transient error, k is at most max_retries, the value returned is the one
\* the last call of func returned, func was called k + 1 times and time.sleep
\* k times, the i-th sleep lasting 5^i seconds and standing between the i-th
\* failed call and the call after it.
C15_RetryThenSuccess ==
    r_pc = "returned" =>
        LET k == TransientFailures
        IN  /\ k <= max_retries
            /\ Len(Calls) = k + 1 /\ Len(Sleeps) = k
            /\ Len(r_log) = 2 * k + 1
            /\ \A i \in 1..k :
                  /\ r_log[2 * i - 1].ev = "call"
                  /\ r_log[2 * i - 1].outcome \in TransientClasses
                  /\ r_log[2 * i].ev = "sleep"
                  /\ r_log[2 * i].secs = 5 ^ i
                  /\ i > 1 => r_log[2 * i].secs > r_log[2 * i - 2].secs
            /\ r_log[2 * k + 1].ev = "call"
            /\ r_log[2 * k + 1].outcome = successful_result
            /\ successful_result \in Results
            /\ r_exc.cls = "None"

\* C15 witness: two transient failures, sleeps of 5 and 25 seconds, success at
\* the third call with max_retries = 3.
C15_Witness ==
    /\ r_pc = "returned" /\ max_retries = 3 /\ Len(Calls) = 3
    /\ Len(Sleeps) = 2 /\ Sleeps[1].secs = 5 /\ Sleeps[2].secs = 25

\* C16: a call of func that raises an error that is not a TransientETLError is
\* the last thing retry does: func is not called again and time.sleep is not
\* called after it, retry has raised, and what it raised is that very error,
\* without a cause attached and not RetriesExhaustedError; this is so at the
\* first call and after earlier transient failures alike.
C16_PermanentErrorReraised ==
    \A i \in 1..Len(r_log) :
        (r_log[i].ev = "call" /\ r_log[i].outcome \notin Results \cup TransientClasses) =>
            /\ i = Len(r_log)
            /\ r_pc = "raised"
            /\ r_exc.cls = r_log[i].outcome /\ r_exc.at = r_log[i].n
            /\ r_exc.cause = None
            /\ r_exc.cls # "RetriesExhaustedError"
            /\ ~ENABLED RetryCall /\ ~ENABLED RetrySleep

\* C16 witness: S3ServiceError at the second call, after a transient failure
\* and a sleep.
C16_Witness ==
    /\ r_pc = "raised" /\ r_exc.cls = "S3ServiceError" /\ r_exc.at = 2
    /\ Len(Sleeps) = 1 /\ max_retries = 2

\* C17: when retry is over and every call of func failed with a transient
\* error, func was called max_retries + 1 times, time.sleep max_retries times,
\* the last event is a call of func and not a sleep, and retry raised
\* RetriesExhaustedError with the error of the last call as its cause; with
\* max_retries = 0 that is one call and no sleep. RetriesExhaustedError is
\* raised in no other case.
C17_RetriesExhausted ==
    /\ (r_pc \in {"returned", "raised"} /\ TransientFailures = Len(Calls)) =>
          /\ r_pc = "raised" /\ r_exc.cls = "RetriesExhaustedError"
          /\ Len(Calls) = max_retries + 1 /\ Len(Sleeps) = max_retries
          /\ r_log[Len(r_log)].ev = "call"
          /\ r_exc.cause = Err(r_log[Len(r_log)].outcome, max_retries + 1)
          /\ r_exc.cause = failure_reason
          /\ max_retries = 0 => (Len(r_log) = 1)
    /\ r_exc.cls = "RetriesExhaustedError" =>
          (r_pc = "raised" /\ TransientFailures = Len(Calls))
    /\ (r_pc = "call" /\ TransientFailures = Len(Calls)) => ENABLED RetryCall
    /\ r_pc = "sleep" => ENABLED RetrySleep

\* C17 witness: max_retries = 2, three transient failures of which the last is
\* of another class than the first, two sleeps.
C17_Witness ==
    /\ r_pc = "raised" /\ r_exc.cls = "RetriesExhaustedError" /\ max_retries = 2
    /\ Len(Calls) = 3 /\ Len(Sleeps) = 2
    /\ r_exc.cause.cls = "MissingCsvFilesError" /\ Calls[1].outcome = "TransientETLError"

\* the same with max_retries = 0: one call, no sleep
C17_WitnessZero ==
    /\ r_pc = "raised" /\ r_exc.cls = "RetriesExhaustedError" /\ max_retries = 0
    /\ Len(r_log) = 1

\* --------------------------------------------------- claims on the extractor
ExtractWorklist == Range(descriptions)

Settled(r) == rel_state[r] \in {"succeeded", "failed"}

\* the tasks that ended because a required relation failed with an
\* ETLRuntimeError
AbortedTasks ==
    {i \in 1..Len(futures) :
        futures[i].state = "raised" /\ futures[i].exc.cls = "ETLRuntimeError"}

\* relations of the same source are next to each other in the worklist
SourcesAdjacent ==
    \A a, b, c \in 1..Len(descriptions) :
        (a < b /\ b < c /\ source_of[descriptions[a]] = source_of[descriptions[c]])
            => source_of[descriptions[b]] = source_of[descriptions[a]]

\* the relations that come after r in the worklist and have its source
LaterOfSameSource(r) ==
    {descriptions[l] : l \in {l \in 1..Len(descriptions) :
        l > Position(descriptions, r) /\ source_of[descriptions[l]] = source_of[r]}}

\* what C18 says of the task i that a failed required relation ended
AbortPropagates(i) ==
    LET r == futures[i].exc.rel
    IN  /\ is_required[r] /\ rel_state[r] = "failed"
        /\ \A l \in LaterOfSameSource(r) : attempts[l] = 0
        /\ (\E j \in 1..Len(futures) : ~Completed(futures[j])) =>
              \E j \in 1..Len(futures) :
                  ENABLED (TaskBegin(j) \/ ExtractBegin(j) \/ ExtractEnd(j))
        /\ e_pc \in {"collect", "returned", "raised"} =>
              \A j \in 1..Len(futures) : Completed(futures[j])
        /\ e_pc # "returned"
        /\ e_pc = "raised" =>
              /\ \E j \in 1..Len(futures) :
                    futures[j].state = "raised" /\ e_exc = futures[j].exc
              /\ (\A j \in 1..Len(futures) : futures[j].state = "raised" => j = i)
                    => e_exc = [cls |-> "ETLRuntimeError", rel |-> r]

C18_WhenSourcesAdjacent ==
    (~keep_going /\ SourcesAdjacent) => \A i \in AbortedTasks : AbortPropagates(i)

\* a required relation of source A failed, a later relation of source A was
\* not attempted, source B was extracted to its end, the failure was raised
C18_WhenSourcesAdjacent_Witness ==
    /\ ~keep_going /\ SourcesAdjacent /\ e_pc = "raised"
    /\ descriptions = <<1, 2, 3>> /\ source_of[1] = source_of[2] /\ source_of[3] # source_of[1]
    /\ rel_state[1] = "failed" /\ attempts[2] = 0 /\ rel_state[3] = "succeeded"
    /\ e_exc = [cls |-> "ETLRuntimeError", rel |-> 1]

\* C19: with keep_going set and no extraction raising anything but an
\* ETLRuntimeError, no task raises and extract_sources does not raise; wait
\* returns only when every task has finished, with every task in done; no
\* relation is attempted twice; and when extract_sources has returned every
\* relation of the worklist has been attempted exactly once and has succeeded
\* or failed, and missing_tables holds exactly the relations whose extraction
\* raised. extract_sources can always go on until it has returned.
C19_KeepGoingAttemptsAll ==
    (keep_going /\ \A i \in 1..Len(futures) : futures[i].exc.cls # "Exception") =>
        /\ e_pc # "raised" /\ e_exc.cls = "None"
        /\ \A i \in 1..Len(futures) : futures[i].state # "raised"
        /\ \A r \in Ids : attempts[r] <= 1
        /\ e_pc \in {"shutdown", "collect", "returned"} =>
              /\ \A i \in 1..Len(futures) : futures[i].state = "finished"
              /\ done_ = 1..Len(futures) /\ not_done = {}
        /\ e_pc = "returned" =>
              /\ \A r \in ExtractWorklist : attempts[r] = 1 /\ Settled(r)
              /\ missing_tables = {r \in ExtractWorklist : rel_state[r] = "failed"}
        /\ e_pc # "returned" => ENABLED NextExtract

\* C19 witness: two sources, a required and an optional relation failed, the
\* third succeeded, and extract_sources returned.
C19_Witness ==
    /\ keep_going /\ e_pc = "returned" /\ Len(descriptions) = 3 /\ Len(futures) = 2
    /\ Cardinality(missing_tables) = 2
    /\ \E r \in missing_tables : is_required[r]
    /\ \E r \in missing_tables : ~is_required[r]

\* C20: extract_sources submits one task for each distinct source name of the
\* worklist; never are two relations of one source being extracted at the same
\* time; and a relation is attempted only when every relation of its source
\* that precedes it in the worklist has succeeded or failed.
C20_OneTaskPerSource ==
    /\ e_pc # "start" =>
          Len(futures) = Cardinality({source_of[r] : r \in ExtractWorklist})
    /\ \A r, q \in ExtractWorklist :
          (r # q /\ source_of[r] = source_of[q]) =>
              ~(rel_state[r] = "extracting" /\ rel_state[q] = "extracting")
    /\ \A r \in ExtractWorklist : \A q \in LaterOfSameSource(r) :
          attempts[q] > 0 => Settled(r)

\* the two parts of C20 that are about the extraction itself
C20_NoIntraSourceParallelism ==
    \A r, q \in ExtractWorklist :
        (r # q /\ source_of[r] = source_of[q]) =>
            ~(rel_state[r] = "extracting" /\ rel_state[q] = "extracting")

C20_WorklistOrderWithinSource ==
    \A r \in ExtractWorklist : \A q \in LaterOfSameSource(r) :
        attempts[q] > 0 => Settled(r)

\* C20 on the worklists in which the relations of a source are adjacent
C20_WhenSourcesAdjacent ==
    SourcesAdjacent => C20_OneTaskPerSource

\* wait has returned because a task raised while another task had not completed
EarlyReturn ==
    /\ ~keep_going /\ e_pc = "shutdown"
    /\ \E i \in done_ : futures[i].state = "raised"
    /\ not_done # {}

\* C21: with keep_going unset, once a task has raised and wait has returned,
\* extract_sources goes on to raise that exception to its caller whether or not
\* the other tasks, which nobody cancels, have completed.
C21_SurfacesWithoutWaiting ==
    EarlyReturn => ENABLED Shutdown

\* C22: when wait has returned with at least one task in not_done,
\* extract_sources ends by raising DataExtractError with the number of tasks in
\* not_done.
C22_UnfinishedRaisesDataExtractError ==
    (e_pc \in {"returned", "raised"} /\ not_done # {}) =>
        /\ e_pc = "raised"
        /\ e_exc = DataExtractError(Cardinality(not_done))


\* ------------------------------------------ claims on files and manifests
\* the name of a local file without its directory (every local file of the
\* model lies directly in a directory)
FileName(path) == SubSeq(path, 3, Len(path))

\* the keys under the prefix that the convention takes for partition files:
\* a piece "part" and the suffix ".gz"
PartitionKeys ==
    {key \in DataKeys :
        /\ objects[key] # Absent
        /\ "part" \in Range(key)
        /\ key[Len(key) - 2] = "." /\ key[Len(key) - 1] = "g" /\ key[Len(key)] = "z"}

\* the local files that are not manifests, in the order of local_files
LocalDataFiles ==
    SelectSeq(local_files, LAMBDA name : name[Len(name)] # "manifest")

\* C23: a call of Extractor.write_manifest_file in a non-dry run changes the
\* manifest object only if it uploads, uploads only if the _SUCCESS marker is
\* there and at least one partition file was listed, and raises
\* MissingCsvFilesError without uploading when the marker is absent or no
\* partition file was listed. In a dry run it changes no object, does not ask
\* get_s3_object_last_modified to wait, whatever needs_to_wait is, and raises
\* nothing.
C23_ManifestPublication ==
    [][f_call'.op = "Extractor.write_manifest_file" =>
        LET marker == objects'[SuccessKey] # Absent
            uploaded == f_call'.result = ManifestKey
        IN  /\ ~dry_run =>
                /\ uploaded => (marker /\ PartitionKeys # {})
                /\ ~uploaded => objects'[ManifestKey] = objects[ManifestKey]
                /\ (~marker \/ PartitionKeys = {}) =>
                        /\ f_call'.raised = "MissingCsvFilesError"
                        /\ ~uploaded
            /\ dry_run =>
                /\ objects' = objects
                /\ ~uploaded
                /\ ~f_call'.waited
                /\ f_call'.raised = "None"]_vars

\* C23 witness: a dry run with needs_to_wait set, the marker absent and a
\* partition file present: the call did not wait, warned, and left no manifest.
C23_Witness ==
    /\ f_call.op = "Extractor.write_manifest_file"
    /\ dry_run /\ needs_to_wait /\ objects[SuccessKey] = Absent /\ PartitionKeys # {}
    /\ f_call.warned /\ ~f_call.waited /\ f_call.raised = "None"
    /\ objects[ManifestKey] = Absent

\* a non-dry run that waited for the marker and uploaded the manifest
C23_WitnessUpload ==
    /\ f_call.op = "Extractor.write_manifest_file"
    /\ ~dry_run /\ f_call.waited /\ f_call.result = ManifestKey
    /\ objects[ManifestKey] \notin {Absent, Old}

\* a non-dry run in which no partition file was listed
C23_WitnessNoFiles ==
    /\ f_call.op = "Extractor.write_manifest_file"
    /\ ~dry_run /\ objects[SuccessKey] # Absent /\ PartitionKeys = {}
    /\ f_call.raised = "MissingCsvFilesError"
    /\ \E key \in DataKeys : objects[key] # Absent

\* C24: the manifest that s3.write_manifest_file wrote, read back, has one
\* entry for each local file that is not a manifest, in their order, with the
\* url s3://<bucket>/<prefix>/<file name> and mandatory true, so that the file
\* names read back are the file names passed in; the call raises ValueError
\* exactly when no local file is left. The manifest that
\* Extractor.write_manifest_file uploaded, read back, has one entry for each
\* partition file under the prefix, sorted, with the url s3://<bucket>/<key>
\* and mandatory true, and no entry for any other key.
C24_ManifestRoundTrip ==
    /\ f_call.op = "write_manifest_file" =>
          /\ f_call.raised = "ValueError" <=> LocalDataFiles = <<>>
          /\ (f_call.raised = "None" /\ ~f_call.dry_run) =>
                LET entries == Load(fs[f_call.result]).entries
                IN  /\ Len(entries) = Len(LocalDataFiles)
                    /\ \A k \in 1..Len(entries) :
                          /\ entries[k].mandatory
                          /\ entries[k].url =
                                <<"s3://", Bucket, "/", "p", "/">> \o FileName(LocalDataFiles[k])
                    /\ [k \in 1..Len(entries) |->
                            SubSeq(entries[k].url, 6, Len(entries[k].url))]
                          = [k \in 1..Len(LocalDataFiles) |-> FileName(LocalDataFiles[k])]
    /\ (f_call.op = "Extractor.write_manifest_file" /\ f_call.result = ManifestKey) =>
          LET entries == Load(objects[ManifestKey]).entries
              keys == [k \in 1..Len(entries) |-> SubSeq(entries[k].url, 4, Len(entries[k].url))]
          IN  /\ Range(keys) = PartitionKeys
              /\ Len(entries) = Cardinality(PartitionKeys)
              /\ \A k \in 1..Len(entries) :
                    /\ entries[k].mandatory
                    /\ SubSeq(entries[k].url, 1, 3) = <<"s3://", Bucket, "/">>
              /\ \A k, l \in 1..Len(keys) :
                    k < l => Position(KeyOrder, keys[k]) < Position(KeyOrder, keys[l])

\* C24 witness: of two local files one is a manifest; the manifest written
\* has the one entry of the other.
C24_Witness ==
    /\ f_call.op = "write_manifest_file" /\ f_call.raised = "None" /\ ~f_call.dry_run
    /\ Len(local_files) = 2 /\ Len(LocalDataFiles) = 1
    /\ Len(Load(fs[f_call.result]).entries) = 1

\* two data files, two entries
C24_WitnessTwoFiles ==
    /\ f_call.op = "write_manifest_file" /\ f_call.raised = "None" /\ ~f_call.dry_run
    /\ Len(LocalDataFiles) = 2 /\ local_files[1] # local_files[2]
    /\ Len(Load(fs[f_call.result]).entries) = 2

\* an uploaded manifest of two partition files, with other keys under the prefix
C24_WitnessExtractor ==
    /\ f_call.op = "Extractor.write_manifest_file" /\ f_call.result = ManifestKey
    /\ Cardinality(PartitionKeys) = 2
    /\ \A key \in DataKeys : objects[key] # Absent

\* no local file but manifests: ValueError
C24_WitnessValueError ==
    /\ f_call.op = "write_manifest_file" /\ f_call.raised = "ValueError"
    /\ Len(local_files) > 0

\* C28: a step changes a file or a manifest object that existed only when the
\* call was asked to overwrite; download_table_data and save_table_design with
\* overwrite unset on an existing file change nothing and return None.
C28_NoOverwriteUnlessRequested ==
    [][/\ \A p \in LocalPaths :
            (fs[p] # Absent /\ fs'[p] # fs[p]) => f_call'.overwrite
       /\ (objects[ManifestKey] # Absent /\ objects'[ManifestKey] # objects[ManifestKey])
            => f_call'.overwrite
       /\ (f_call'.op = "download_table_data" /\ ~f_call'.overwrite /\ fs[CsvFile] # Absent)
            => (fs' = fs /\ f_call'.result = NoPath)
       /\ (f_call'.op = "save_table_design" /\ ~f_call'.overwrite /\ fs[DesignFile] # Absent)
            => (fs' = fs /\ f_call'.result = NoPath)]_vars

\* the part of C28 that is about dump.py
C28_DumpSkipsExisting ==
    [][f_call'.op \in {"download_table_data", "save_table_design"} =>
        LET p == IF f_call'.op = "download_table_data" THEN CsvFile ELSE DesignFile
        IN  /\ (fs[p] # Absent /\ fs'[p] # fs[p]) => f_call'.overwrite
            /\ (~f_call'.overwrite /\ fs[p] # Absent) =>
                  (fs' = fs /\ f_call'.result = NoPath /\ f_call'.raised = "None")]_vars

\* an existing CSV file was left alone
C28_DumpSkipsExisting_Witness ==
    /\ f_call.op = "download_table_data" /\ ~f_call.overwrite /\ ~f_call.dry_run
    /\ fs[CsvFile] = Old /\ f_call.result = NoPath

\* ------------------------------------------- claims on verify_constraints
\* the rows a constraint is about: for a unique constraint those without NULL
\* in its columns, for a key constraint all
Considered(c) ==
    {row \in RowValues :
        /\ rows[row] > 0
        /\ c.type = "unique" => \A k \in 1..Len(c.columns) : Project(row, c.columns)[k] # NULL}

\* two rows the constraint is about that agree in its columns
DuplicatePairs(c) ==
    {pair \in Considered(c) \X Considered(c) :
        /\ Project(pair[1], c.columns) = Project(pair[2], c.columns)
        /\ pair[1] # pair[2] \/ rows[pair[1]] > 1}

Violated(c) == DuplicatePairs(c) # {}

\* verify_constraints is over
Verified == l_plan # <<>> /\ (l_pc > Position(l_plan, "verify_constraints") \/ l_exc # NoError)

\* C25: once verify_constraints is over: in a dry run, without declared
\* constraints or with an empty list no query was sent and nothing was raised.
\* Otherwise, FailedConstraintError is raised only for the first constraint,
\* in the order of declaration, that has two considered rows with equal values
\* in its columns; it carries the identifier of the relation, the type and the
\* columns of that constraint and between one and five of its duplicate
\* groups, and no query was sent for a later constraint. Unless the warehouse
\* rejected a query, it is raised whenever some constraint has such rows, and
\* when nothing is raised every constraint was queried and none has such rows.
C25_VerifyConstraints ==
    (Verified /\ l_plan = <<"verify_constraints">>) =>
        LET list == table_design.constraints
        IN  /\ (dry_run \/ ~table_design.has_constraints \/ list = <<>>) =>
                  (statements = <<>> /\ l_exc = NoError)
            /\ (~dry_run /\ table_design.has_constraints) =>
                  /\ l_exc.cls \in {"None", "FailedConstraintError", "psycopg2.Error"}
                  /\ l_exc.cls = "FailedConstraintError" =>
                        \E k \in 1..Len(list) :
                            /\ Violated(list[k])
                            /\ \A j \in 1..(k - 1) : ~Violated(list[j])
                            /\ l_exc.identifier = Identifier
                            /\ l_exc.constraint_type = list[k].type
                            /\ l_exc.columns = list[k].columns
                            /\ l_exc.examples # {}
                            /\ Cardinality(l_exc.examples) <= 5
                            /\ l_exc.examples \subseteq
                                  {Project(pair[1], list[k].columns) : pair \in DuplicatePairs(list[k])}
                            /\ Len(statements) = k
                            /\ \A n \in 1..k : statements[n] = ConstraintQuery(n)
                  /\ ((\E k \in 1..Len(list) : Violated(list[k])) /\ l_exc.cls # "psycopg2.Error")
                        => l_exc.cls = "FailedConstraintError"
                  /\ l_exc = NoError =>
                        /\ \A k \in 1..Len(list) : ~Violated(list[k])
                        /\ Len(statements) = Len(list)

\* C25 witness: a unique constraint on c1; two rows with c1 = "a", two rows
\* with c1 = NULL; the error carries the one group of "a".
C25_Witness ==
    /\ Verified /\ l_plan = <<"verify_constraints">> /\ ~dry_run
    /\ table_design.constraints = <<[type |-> "unique", columns |-> <<"c1">>]>>
    /\ rows[<<"a", "a">>] = 2 /\ rows[<<NULL, "a">>] = 2
    /\ l_exc = FailedConstraintError(Identifier, "unique", <<"c1">>, {<<"a">>})

\* six duplicate groups, five examples
C25_WitnessLimit ==
    /\ Verified /\ l_plan = <<"verify_constraints">>
    /\ l_exc.cls = "FailedConstraintError"
    /\ Cardinality(l_exc.examples) = 5
    /\ \A row \in RowValues : rows[row] = 2

\* the second constraint is the first that is violated
C25_WitnessSecond ==
    /\ Verified /\ l_plan = <<"verify_constraints">>
    /\ l_exc.cls = "FailedConstraintError" /\ Len(statements) = 2
    /\ l_exc.constraint_type = "primary_key"
    /\ table_design.constraints[1].type = "unique"

\* rows that agree only in being NULL do not violate a unique constraint
C25_WitnessNull ==
    /\ Verified /\ l_plan = <<"verify_constraints">> /\ ~dry_run
    /\ table_design.constraints = <<[type |-> "unique", columns |-> <<"c1">>]>>
    /\ rows[<<NULL, "a">>] = 2 /\ l_exc = NoError /\ Len(statements) = 1

\* ------------------------------------- claims on the load of one relation
Steps == [k \in 1..Len(statements) |-> statements[k].step]

Sqls == [k \in 1..Len(statements) |-> statements[k].sql]

Sent(sql) == \E k \in 1..Len(statements) : statements[k].sql = sql

Accepted(sql) == \E k \in 1..Len(statements) : statements[k].sql = sql /\ statements[k].ok

\* the step of the plan that raised
FailedStep == IF l_exc # NoError THEN l_plan[l_pc] ELSE "none"

Returned == l_plan # <<>> /\ l_pc = Len(l_plan) + 2

\* C26: in a dry run nothing is sent to the warehouse: no statement of the load
\* of a relation of any kind, with any drop and skip_copy; no schema is backed
\* up or created, no relation has any effect in the warehouse, nothing is
\* vacuumed and no schema is restored, whatever drop, stop_after_first and
\* no_rollback are. A missing manifest is never raised as MissingManifestError:
\* once copy_data has returned, it has logged a warning.
C26_DryRunSendsNothing ==
    dry_run =>
        /\ statements = <<>>
        /\ backed_up = {} /\ created = {}
        /\ pending = {} /\ durable = {}
        /\ vacuumed = <<>>
        /\ restored = {} /\ restore_calls = 0
        /\ l_exc = NoError
        /\ (rel_kind = "DATA" /\ ~has_manifest /\ l_plan # <<>>
                /\ l_pc > Position(l_plan, "copy_data"))
              => warnings = <<"Missing manifest file">>
        /\ (rel_kind = "DATA" /\ has_manifest) => warnings = <<>>

\* C26 witness: the dry run of the load of a DATA relation with drop and
\* skip_copy set, no manifest and a violated constraint has returned.
C26_Witness ==
    /\ dry_run /\ rel_kind = "DATA" /\ drop /\ skip_copy /\ ~has_manifest
    /\ table_design.has_constraints /\ FirstViolated(rows, table_design.constraints) = 1
    /\ Returned /\ modified
    /\ statements = <<>> /\ warnings = <<"Missing manifest file">>

\* a dry run in whole-schema mode in which a load failed fatally
C26_WitnessWholeSchemas ==
    /\ dry_run /\ whole_schemas /\ pc = "raised" /\ failed # {}
    /\ backed_up = {} /\ restore_calls = 0

\* a dry run in which vacuum was called
C26_WitnessVacuum ==
    /\ dry_run /\ pc = "returned" /\ vacuum_calls = 1 /\ vacuumed = <<>>

\* the dry run of the load of a CTAS relation with skip_copy set
C26_WitnessCtas ==
    /\ dry_run /\ rel_kind = "CTAS" /\ skip_copy /\ Returned /\ statements = <<>>

\* C27: at any time at most two connections opened by load_or_update_redshift
\* are open, at most one of them besides the primary connection; a relation is
\* handed to load_or_update_redshift_relation only while the primary connection
\* is the only open one, one relation in a step, and the relations attempted
\* so far are in the order of the worklist.
C27_AtMostTwoConnections ==
    /\ [](/\ Cardinality(conns) <= 2
          /\ Cardinality(conns \ {"primary"}) <= 1
          /\ conns \subseteq {"primary", "backup", "restore", "vacuum"}
          /\ Range(attempted) \subseteq Range(execution_order)
          /\ \A i, j \in 1..Len(attempted) :
                i < j => Position(execution_order, attempted[i])
                            < Position(execution_order, attempted[j]))
    /\ [][attempted' # attempted =>
            /\ conns = {"primary"} /\ conns' = conns
            /\ \E r \in Range(execution_order) : attempted' = Append(attempted, r)]_vars

\* C27 witness: whole-schema mode; the backup connection was opened and closed,
\* two relations were attempted, the second failed fatally, and the restore
\* connection is open together with the primary connection.
C27_Witness ==
    /\ whole_schemas /\ backed_up # {} /\ Len(attempted) = 2
    /\ pc = "unwind" /\ conns = {"primary", "restore"}

\* the order in which the claim lists the steps of a DATA relation
DataOrder == <<"create_table", "grant_access", "copy_data", "analyze", "verify_constraints">>

\* the order in which the claim lists the steps of a CTAS relation
CtasOrder == <<"create_table", "create_temp_table_as_and_copy", "analyze",
               "verify_constraints", "grant_access">>

\* the statements came from steps in the given order
InStepOrder(order) ==
    /\ Range(Steps) \subseteq Range(order)
    /\ \A i, j \in 1..Len(Steps) :
          i < j => Position(order, Steps[i]) <= Position(order, Steps[j])

\* the statements with the given texts were sent in the given order
InSqlOrder(sqls) ==
    \A a, b \in 1..Len(sqls) : \A i, j \in 1..Len(Sqls) :
        (a < b /\ Sqls[i] = sqls[a] /\ Sqls[j] = sqls[b]) => i < j

\* C29: in a run that is not a dry run, the statements of a DATA relation come
\* from create table, grant access, copy (DELETE, then COPY), analyze, verify
\* constraints, in this order, and those of a CTAS relation from create table,
\* the temp table step (create temp table, DELETE, INSERT, drop temp table),
\* analyze, verify constraints, grant access, in this order. A step that raised
\* is the last that ran: nothing is sent after it. For a DATA relation access
\* has been granted when the copy or the verification raises; for a CTAS
\* relation access is granted only when no constraint is violated. A load that
\* returned with skip_copy unset went through every step.
C29_StepOrder ==
    /\ [](~dry_run =>
          /\ rel_kind = "DATA" =>
                /\ InStepOrder(DataOrder)
                /\ InSqlOrder(<<"CREATE TABLE IF NOT EXISTS", "GRANT ALL", "DELETE FROM",
                                "COPY", "ANALYZE", "SELECT DISTINCT">>)
                /\ FailedStep \in {"copy_data", "analyze", "verify_constraints"} =>
                      /\ Accepted("GRANT ALL")
                      /\ \A k \in 1..Len(reader_groups) : Accepted("GRANT SELECT")
                      /\ \A k \in 1..Len(writer_groups) : Accepted("GRANT SELECT, WRITE")
                /\ (Returned /\ ~skip_copy) =>
                      /\ \A sql \in {"CREATE TABLE IF NOT EXISTS", "GRANT ALL", "DELETE FROM",
                                     "COPY", "ANALYZE"} : Accepted(sql)
                      /\ (table_design.constraints # <<>>) => Accepted("SELECT DISTINCT")
          /\ rel_kind = "CTAS" =>
                /\ InStepOrder(CtasOrder)
                /\ InSqlOrder(<<"CREATE TABLE IF NOT EXISTS", "CREATE TEMP TABLE",
                                "INSERT INTO temp", "DELETE FROM", "INSERT INTO", "DROP TABLE temp", "ANALYZE",
                                "SELECT DISTINCT", "GRANT ALL">>)
                /\ Sent("GRANT ALL") =>
                      /\ Accepted("ANALYZE")
                      /\ table_design.has_constraints =>
                            /\ \A k \in 1..Len(table_design.constraints) :
                                  ~Violated(table_design.constraints[k])
                            /\ \A k \in 1..Len(table_design.constraints) :
                                  ConstraintQuery(k) \in Range(statements)
                /\ (Returned /\ ~skip_copy) =>
                      \A sql \in {"CREATE TABLE IF NOT EXISTS", "CREATE TEMP TABLE",
                                  "DELETE FROM", "INSERT INTO", "DROP TABLE temp", "ANALYZE",
                                  "GRANT ALL"} : Accepted(sql))
    /\ [][l_exc # NoError =>
            /\ statements' = statements /\ l_exc' = l_exc /\ l_pc' = l_pc]_vars
    /\ [][(l_exc = NoError /\ l_exc' # NoError) =>
            \A k \in 1..Len(statements') :
                ~statements'[k].ok => statements'[k].step = l_plan[l_pc]]_vars

\* C29 witness: a DATA relation whose constraint is violated: everything up to
\* the verification ran, access was granted, FailedConstraintError was raised.
C29_Witness ==
    /\ ~dry_run /\ ~skip_copy /\ rel_kind = "DATA" /\ has_manifest
    /\ l_exc.cls = "FailedConstraintError"
    /\ Accepted("GRANT ALL") /\ Accepted("COPY") /\ Accepted("ANALYZE")

\* a CTAS relation with an identity column has returned
C29_WitnessCtas ==
    /\ ~dry_run /\ ~skip_copy /\ rel_kind = "CTAS" /\ has_any_identity /\ Returned
    /\ Accepted("INSERT INTO temp") /\ Accepted("GRANT ALL") /\ Accepted("SELECT DISTINCT")

\* a CTAS relation whose constraint is violated is not granted access
C29_WitnessCtasViolated ==
    /\ ~dry_run /\ rel_kind = "CTAS" /\ l_exc.cls = "FailedConstraintError"
    /\ ~Sent("GRANT ALL")

\* the COPY of a DATA relation was rejected
C29_WitnessCopyFails ==
    /\ ~dry_run /\ rel_kind = "DATA" /\ l_exc.cls = "psycopg2.Error"
    /\ Sent("COPY") /\ ~Accepted("COPY") /\ Accepted("GRANT ALL") /\ Sent("ROLLBACK")

\* copy_data is over for a DATA relation without manifest
CopyOverWithoutManifest ==
    /\ rel_kind = "DATA" /\ ~has_manifest /\ l_plan # <<>>
    /\ \/ l_pc > Position(l_plan, "copy_data")
       \/ l_pc = Position(l_plan, "copy_data") /\ l_exc # NoError

C30_WitnessSkipCopy ==
    /\ CopyOverWithoutManifest /\ ~dry_run /\ skip_copy /\ Returned /\ Accepted("ANALYZE")

\* --------------------------------------------------- claims C31 to C40
\* C31: the RequiredRelationLoadError raised for the failed load of relation R
\* has the required dependents of R as its failed_relations and R's identifier
\* as its bad_apple.
C31_ErrorNamesDependentsAndTrigger ==
    exc.type = "RequiredRelationLoadError" =>
        /\ exc.failed_relations
              = FailedAndRequired(find_dependents(execution_order, <<exc.cause>>))
        /\ exc.bad_apple = <<exc.cause>>

\* extract_sources has returned or raised
ExtractOver == e_pc \in {"returned", "raised"}

\* the first part of C32: a task never ends by the ETLRuntimeError of an
\* optional relation, and after such a failure the next relation of the task
\* can be attempted
OptionalFailureContinues ==
    /\ \A i \in AbortedTasks : is_required[futures[i].exc.rel]
    /\ \A i \in 1..Len(futures) :
          (/\ futures[i].state = "running" /\ ~futures[i].busy /\ futures[i].pos > 0
           /\ rel_state[futures[i].group[futures[i].pos]] = "failed")
              => ENABLED ExtractBegin(i)

\* C32: the ETLRuntimeError of an optional relation does not end the task of
\* its source, with or without keep_going, and once extract_sources is over
\* failed_sources holds a source only if one of its required relations failed
\* in this run.
C32_OptionalFailureDoesNotMarkSource ==
    /\ OptionalFailureContinues
    /\ ExtractOver =>
          \A s \in failed_sources : \E r \in ExtractWorklist :
              source_of[r] = s /\ is_required[r] /\ rel_state[r] = "failed"

\* the tasks that ended because extract_table raised something that is not an
\* ETLRuntimeError
SystemErrorTasks ==
    {i \in 1..Len(futures) :
        futures[i].state = "raised" /\ futures[i].exc.cls = "Exception"}

\* the relations on which extract_table raised something that is not an
\* ETLRuntimeError
SystemErrors ==
    {r \in ExtractWorklist : \E i \in 1..Len(futures) :
        /\ futures[i].pos < Len(futures[i].group) /\ futures[i].group[futures[i].pos + 1] = r
        /\ ~futures[i].busy /\ futures[i].state # "queued"
        /\ rel_state[r] = "failed" /\ r \notin Range(futures[i].failed)}

\* the task of a relation on which extract_table raised something that is not
\* an ETLRuntimeError has ended there, and the relation is on no list of
\* failed relations
SystemErrorEndsTask ==
    /\ \A i \in 1..Len(futures) :
          (futures[i].pos < Len(futures[i].group)
             /\ futures[i].group[futures[i].pos + 1] \in SystemErrors) =>
              /\ futures[i].state = "raised"
              /\ futures[i].exc = [cls |-> "Exception", rel |-> futures[i].group[futures[i].pos + 1]]
              /\ \A k \in (futures[i].pos + 2)..Len(futures[i].group) :
                    attempts[futures[i].group[k]] = 0
              /\ ~ENABLED (ExtractBegin(i) \/ ExtractEnd(i))
    /\ \A r \in SystemErrors :
          /\ r \notin missing_tables
          /\ \A i \in 1..Len(futures) : r \notin Range(futures[i].failed)
    /\ SystemErrors = {futures[i].exc.rel : i \in SystemErrorTasks}

C33_WitnessNotRetrieved ==
    /\ e_pc = "raised" /\ e_exc.cls = "ETLRuntimeError"
    /\ \E i \in SystemErrorTasks : i \in not_done

\* C34: an exception raised while upload_to_s3 uploads the file is raised to
\* the caller of upload_to_s3, as the exception of a filename future is: a
\* failed upload does not end in a normal return.
C34_UploadErrorPropagates ==
    f_call.op = "upload_to_s3" =>
        /\ f_call.upload = "failed" => f_call.raised = "Exception"
        /\ f_call.raised = "None" =>
              \/ f_call.result = NoPath
              \/ f_call.dry_run
              \/ ObjectKey(Prefix, f_call.result) \in uploads

\* the relations of the full order that depend on r, directly or transitively
DependentsInOrder(r) ==
    {d \in Range(complete_sequence) : DependsOnWithin(relations, d, r)}

\* C35: when evaluate_execution_order returns with only_first unset, every
\* relation of the full order that depends, directly or transitively, on a
\* relation of the worklist is in the worklist, with whole_schemas set or not.
C35_WorklistClosedUnderDependents ==
    (pc = "returned" /\ ~only_first) =>
        \A r \in Worklist : DependentsInOrder(r) \subseteq Worklist

\* C35 amended: the worklist holds every dependent of a selected relation, and
\* without whole_schemas it is closed under dependents. With whole_schemas a
\* dependent of a worklist relation is in the worklist exactly when its target
\* schema is one of the schemas returned: the dependents of a relation that
\* only the widening added are not looked for.
C35_ClosedUnlessWidened ==
    (pc = "returned" /\ ~only_first) =>
        /\ \A r \in Matched : DependentsInOrder(r) \subseteq Worklist
        /\ ~whole_schemas => \A r \in Worklist : DependentsInOrder(r) \subseteq Worklist
        /\ \A r \in Worklist : \A d \in DependentsInOrder(r) :
              d \in Worklist <=> schema_of[d] \in involved_schemas

\* C35 witness: without whole_schemas, the worklist holds a relation that was
\* not selected but depends on one that was, through a relation in between.
C35_Witness ==
    /\ pc = "returned" /\ ~only_first /\ ~whole_schemas
    /\ Cardinality(Matched) = 1 /\ Cardinality(Worklist) = 3
    /\ \E r \in Matched : \E d \in Worklist : r \notin depends_on[d] /\ d # r

\* with whole_schemas, a relation that the widening added has a dependent in
\* another schema, which is not in the worklist
C35_WitnessWidened ==
    /\ pc = "returned" /\ ~only_first /\ whole_schemas
    /\ \E r \in Worklist \ Touched : \E d \in DependentsInOrder(r) :
          d \notin Worklist /\ schema_of[d] \notin involved_schemas

\* the relations of the worklist that r depends on, directly or through other
\* relations of the worklist
DependenciesInWorklist(r) ==
    {d \in Worklist \ {r} : DependsOnWithin(Worklist, r, d)}

\* the relations of the worklist that r depends on, directly or through any
\* relations of the input
DependenciesOfInput(r) ==
    {d \in Worklist \ {r} : DependsOnWithin(relations, r, d)}

\* C36: in whole-schema mode a relation is handed to
\* load_or_update_redshift_relation only if none of the relations of the
\* worklist that it depends on, directly or transitively, has failed or been
\* skipped before.
C36_NoLoadAfterFailedDependency ==
    whole_schemas =>
        \A r \in Range(attempted) :
            DependenciesOfInput(r) \cap (failed \cup skipped \cup skip_after_fail) = {}

\* C36 amended: the same for the dependencies that are reached through
\* relations of the worklist only: at the moment of the call they have all
\* been loaded, and so none of them has failed or been skipped for any relation
\* attempted so far.
C36_NoLoadAfterFailureInsideWorklist ==
    /\ [](whole_schemas =>
            \A r \in Range(attempted) :
                DependenciesInWorklist(r) \cap (failed \cup skipped \cup skip_after_fail) = {})
    /\ [][(whole_schemas /\ attempted' # attempted) =>
            /\ attempted' = Append(attempted, execution_order[index + 1])
            /\ DependenciesInWorklist(execution_order[index + 1])
                  \cap (failed \cup skipped \cup skip_after_fail) = {}
            /\ DependenciesInWorklist(execution_order[index + 1]) \subseteq loaded]_vars

\* C36 witness: in whole-schema mode an optional relation failed, a dependent
\* of it was skipped, and a relation that depends on neither was loaded after
\* that.
C36_Witness ==
    /\ whole_schemas /\ Cardinality(failed) = 1 /\ Cardinality(skipped) = 1
    /\ Len(attempted) = 2 /\ attempted[1] \in failed /\ attempted[2] \in loaded
    /\ index = 3

\* in whole-schema mode a relation was loaded that depends, through a relation
\* outside the worklist, on a relation that had failed
C36_WitnessOutsideChain ==
    /\ whole_schemas /\ pc = "returned"
    /\ \E r \in loaded : DependenciesOfInput(r) \cap failed # {}

\* C37: when load_or_update_redshift has returned from a run that is not a dry
\* run, in either mode, every required relation of the worklist has been
\* loaded in this run: none of them failed, none is in the skip-set or was
\* skipped.
C37_RequiredRelationsLoaded ==
    (pc = "returned" /\ ~dry_run) =>
        \A r \in Worklist :
            is_required[r] =>
                /\ r \in loaded /\ r \in Range(attempted)
                /\ r \notin failed /\ r \notin skip_after_fail /\ r \notin skipped

\* C37 witness: a run in whole-schema mode returned although a relation failed
\* and another was skipped; a required relation was loaded.
C37_Witness ==
    /\ pc = "returned" /\ ~dry_run /\ whole_schemas
    /\ failed # {} /\ skipped # {}
    /\ \E r \in Worklist : is_required[r] /\ r \in loaded

\* a run that is not in whole-schema mode returned with two required relations
C37_WitnessTransaction ==
    /\ pc = "returned" /\ ~dry_run /\ ~whole_schemas
    /\ Cardinality({r \in Worklist : is_required[r]}) = 2 /\ committed

\* C38: when load_or_update_redshift has returned or raised, every connection
\* it opened (backup, primary, restore, vacuum) has been closed.
C38_AllConnectionsClosed ==
    pc \in {"returned", "raised"} => conns = {}

\* every connection but the one handed to restore_schemas is closed when
\* load_or_update_redshift has returned or raised
C38_AllButRestoreClosed ==
    pc \in {"returned", "raised"} =>
        /\ conns \subseteq {"restore"}
        /\ "restore" \in conns <=> restore_calls = 1

\* retry has returned or raised
RetryOver == r_pc \in {"returned", "raised"}

\* C39: for every integer max_retries, negative ones and 0 included, retry
\* calls func at least once before it returns or raises; it raises
\* RetriesExhaustedError only with a transient failure of func as its cause;
\* and it returns a value only when the last call of func returned it.
C39_RetryCallsAtLeastOnce ==
    RetryOver =>
        /\ NumCalls(r_log) >= 1
        /\ r_exc.cls = "RetriesExhaustedError" =>
              /\ r_exc.cause # None /\ IsTransient(r_exc.cause.cls)
              /\ r_exc.cause.at = NumCalls(r_log)
        /\ r_pc = "returned" =>
              /\ r_log[Len(r_log)].ev = "call"
              /\ r_log[Len(r_log)].outcome = successful_result
              /\ successful_result \in Results

\* C39 for max_retries >= 0
C39_WhenNotNegative ==
    (RetryOver /\ max_retries >= 0) =>
        /\ NumCalls(r_log) >= 1
        /\ r_exc.cls = "RetriesExhaustedError" =>
              /\ r_exc.cause # None /\ IsTransient(r_exc.cause.cls)
              /\ r_exc.cause.at = NumCalls(r_log)
        /\ r_pc = "returned" =>
              /\ r_log[Len(r_log)].ev = "call"
              /\ r_log[Len(r_log)].outcome = successful_result
              /\ successful_result \in Results

\* C40: in whole-schema mode with dry_run and no_rollback unset, when
\* load_or_update_redshift has raised after a schema was renamed to its backup
\* name, restore_schemas has been called for the involved schemas.
C40_RestoreAfterAnyFailure ==
    (whole_schemas /\ ~dry_run /\ ~no_rollback /\ pc = "raised" /\ backed_up # {}) =>
        restore_calls = 1 /\ restored = involved_schemas

\* the same for the exceptions that leave the loop over the worklist
C40_RestoreAfterFailureInLoop ==
    (whole_schemas /\ ~dry_run /\ ~no_rollback /\ pc = "raised"
        /\ exc.type \in {"RequiredRelationLoadError", "LoadError"}) =>
        restore_calls = 1 /\ restored = involved_schemas

=============================================================================
